---- MODULE Spec2Model ----
(***************************************************************************)
(* Model of the trident workflow runtime (src/runtime/trident): the DAG    *)
(* builder, the level-parallel executor with checkpointing and resume, and *)
(* the branch (sub-workflow loop) subsystem.                               *)
(*                                                                         *)
(* Node ids are small integers (ascending integer order stands for the     *)
(* ascending string order of ids).  A node output is a dict: a function    *)
(* from a subset of the field names to values.  Values are integers;       *)
(* Python's None is the integer None below.                                *)
(***************************************************************************)
EXTENDS Integers, Sequences, FiniteSets, TLC

\* ---------------------------------------------------------------- bounds
MaxCounter == 1      \* the run inputs carry counter in 0..MaxCounter
MaxM == 2            \* max_iterations of a branch ranges over 1..MaxM
MaxResumes == 1      \* number of resumes after the first run
LoopK == MaxM + 1    \* the loops run while counter < LoopK

\* ---------------------------------------------------------------- values
None == -1           \* Python None
Never == -2          \* "the sub-workflow tool never raises"

EmptyDict == [f \in {} |-> 0]

Put(d, k, v) == [x \in (DOMAIN d) \cup {k} |-> IF x = k THEN v ELSE d[x]]

One(k, v) == Put(EmptyDict, k, v)

\* dict.get(key, {}) on a map of dicts
GetOr(m, k) == IF k \in DOMAIN m THEN m[k] ELSE EmptyDict

\* a.update(b)
Update(a, b) == [x \in (DOMAIN a) \cup (DOMAIN b) |-> IF x \in DOMAIN b THEN b[x] ELSE a[x]]

Range(s) == {s[i] : i \in DOMAIN s}

Min(S) == CHOOSE x \in S : \A y \in S : x <= y

RECURSIVE SortedSeq(_)
SortedSeq(S) == IF S = {} THEN <<>> ELSE <<Min(S)>> \o SortedSeq(S \ {Min(S)})

RECURSIVE Flat(_)
Flat(ss) == IF ss = <<>> THEN <<>> ELSE Head(ss) \o Flat(Tail(ss))

\* template.get_nested for an undotted path: a missing key and a None value both give None
get_nested(data, path) == IF path \in DOMAIN data THEN data[path] ELSE None

\* ------------------------------------------------------------ conditions
NoCond == [op |-> "none", k |-> 0]
Lt(k) == [op |-> "lt", k |-> k]
Gt(k) == [op |-> "gt", k |-> k]

\* conditions.evaluate on "counter < k" / "counter > k": "true", "false", or
\* "err" (ConditionError: None compared with a number)
evaluate(cond, context) ==
  LET left == get_nested(context, "counter")
  IN IF left = None THEN "err"
     ELSE IF cond.op = "lt" THEN (IF left < cond.k THEN "true" ELSE "false")
     ELSE (IF left > cond.k THEN "true" ELSE "false")

\* -------------------------------------------------------------- projects
Map(t, s) == [target |-> t, source |-> s]
MkEdge(f, t, c, m) == [from |-> f, to |-> t, cond |-> c, maps |-> m]
CC == <<Map("counter", "counter")>>
NoBranch == [workflow |-> "none", condition |-> NoCond, loop_while |-> NoCond, max_iterations |-> 10]

\* the "increment" sub-project of the branch tests: input -> tool -> output
IncrementProject ==
  [name |-> "increment", kind |-> <<"input", "tool", "output">>,
   edges |-> <<MkEdge(1, 2, NoCond, CC), MkEdge(2, 3, NoCond, CC)>>,
   entrypoints |-> <<1>>, branches |-> [n \in {} |-> NoBranch]]

\* input -> {tool, prompt} -> output, the tool's edge to the output gated
FanProject(gate) ==
  [name |-> "fan", kind |-> <<"input", "tool", "prompt", "output">>,
   edges |-> <<MkEdge(1, 2, NoCond, CC), MkEdge(1, 3, NoCond, CC),
               MkEdge(2, 4, gate, CC), MkEdge(3, 4, NoCond, <<Map("text", "text")>>)>>,
   entrypoints |-> <<1>>, branches |-> [n \in {} |-> NoBranch]]

\* input -> {branch, tool} ; branch -> output
LoopProject(wf, pre, w, m) ==
  [name |-> "loop", kind |-> <<"input", "branch", "tool", "output">>,
   edges |-> <<MkEdge(1, 2, NoCond, CC), MkEdge(1, 3, NoCond, CC), MkEdge(2, 4, NoCond, CC)>>,
   entrypoints |-> <<1>>,
   branches |-> [n \in {2} |-> [workflow |-> wf, condition |-> pre, loop_while |-> w, max_iterations |-> m]]]

\* input -> tool -> output, the edge into the tool gated on the run inputs
GatedProject(gate) ==
  [name |-> "gated", kind |-> <<"input", "tool", "output">>,
   edges |-> <<MkEdge(1, 2, gate, CC), MkEdge(2, 3, NoCond, CC)>>,
   entrypoints |-> <<1>>, branches |-> [n \in {} |-> NoBranch]]

\* input -> a -> b -> a : a directed cycle
CycleProject ==
  [name |-> "cycle", kind |-> <<"input", "tool", "tool">>,
   edges |-> <<MkEdge(1, 2, NoCond, CC), MkEdge(2, 3, NoCond, CC), MkEdge(3, 2, NoCond, CC)>>,
   entrypoints |-> <<1>>, branches |-> [n \in {} |-> NoBranch]]

\* a project object built without entrypoints
NoEntryProject ==
  [name |-> "noentry", kind |-> <<"input", "tool", "output">>,
   edges |-> <<MkEdge(1, 2, NoCond, CC), MkEdge(2, 3, NoCond, CC)>>,
   entrypoints |-> <<>>, branches |-> [n \in {} |-> NoBranch]]

Projects ==
  {FanProject(g) : g \in {NoCond, Gt(1)}}
  \cup {LoopProject("increment", NoCond, w, m) : w \in {NoCond, Lt(LoopK)}, m \in 1..MaxM}
  \cup {LoopProject("increment", Gt(0), Lt(LoopK), MaxM), LoopProject("missing", NoCond, NoCond, MaxM),
        LoopProject("cycle", NoCond, NoCond, MaxM)}
  \cup {CycleProject, NoEntryProject, GatedProject(Gt(0))}

Nodes(p) == 1..Len(p.kind)
input_nodes(p) == {n \in Nodes(p) : p.kind[n] = "input"}
output_nodes(p) == {n \in Nodes(p) : p.kind[n] = "output"}
IsEdgeTo(n, e) == e.to = n
incoming_edges(p, n) == SelectSeq(p.edges, LAMBDA e : IsEdgeTo(n, e))
EdgeSet(p) == Range(p.edges)

\* ------------------------------------------------------------- build_dag
IsEdgeFrom(n, e) == e.from = n
outgoing_edges(p, n) == SelectSeq(p.edges, LAMBDA e : IsEdgeFrom(n, e))

\* in_degree = {node_id: len(node.incoming_edges)}
in_degrees(p) == [n \in Nodes(p) |-> Len(incoming_edges(p, n))]

sort_level_unsorted(current_level) == current_level

\* current_level.sort()
sort_level(current_level) == SortedSeq(Range(current_level))

extend_order_once(order, level) == IF order = <<>> THEN level ELSE order

\* execution_order.extend(current_level)
extend_order(order, level) == order \o level

\* the inner loops of the level search: every outgoing edge of the level
\* decrements the in-degree of its target, a target that reaches zero joins
\* the next level
RECURSIVE decrement(_, _, _)
decrement(es, in_degree, next_level) ==
  IF es = <<>> THEN [in_degree |-> in_degree, next_level |-> next_level]
  ELSE LET t == Head(es).to
           d == in_degree[t] - 1
       IN decrement(Tail(es), [in_degree EXCEPT ![t] = d],
                    IF d = 0 THEN Append(next_level, t) ELSE next_level)

\* the while loop of build_dag (Kahn's algorithm with level grouping)
RECURSIVE kahn(_, _, _, _, _)
kahn(p, current_level, in_degree, execution_levels, execution_order) ==
  IF current_level = <<>>
  THEN [execution_levels |-> execution_levels, execution_order |-> execution_order]
  ELSE LET level == sort_level(current_level)
           es == Flat([i \in 1..Len(level) |-> outgoing_edges(p, level[i])])
           step == decrement(es, in_degree, <<>>)
       IN kahn(p, step.next_level, step.in_degree,
               Append(execution_levels, level), extend_order(execution_order, level))

IsZero(in_degree, n) == in_degree[n] = 0

topological_sort(p) ==
  kahn(p, SelectSeq(SortedSeq(Nodes(p)), LAMBDA n : IsZero(in_degrees(p), n)), in_degrees(p), <<>>, <<>>)

execution_levels(p) == topological_sort(p).execution_levels

execution_order(p) == topological_sort(p).execution_order

unknown_endpoint(p) == \E e \in EdgeSet(p) : e.from \notin Nodes(p) \/ e.to \notin Nodes(p)

check_cycles_never(p, sorted) ==
  [error |-> "none", remaining |-> {},
   execution_levels |-> sorted.execution_levels, execution_order |-> sorted.execution_order]

\* the cycle check of build_dag on the sorted nodes
check_cycles(p, sorted) ==
  IF Len(sorted.execution_order) # Len(p.kind)
  THEN [error |-> "cycle", remaining |-> Nodes(p) \ Range(sorted.execution_order),
        execution_levels |-> <<>>, execution_order |-> <<>>]
  ELSE [error |-> "none", remaining |-> {},
        execution_levels |-> sorted.execution_levels, execution_order |-> sorted.execution_order]

\* build_dag: the DAG (execution_levels, execution_order), or the DAGError
\* with the nodes its message names
build_dag(p) ==
  IF unknown_endpoint(p)
  THEN [error |-> "unknown_node", remaining |-> {}, execution_levels |-> <<>>, execution_order |-> <<>>]
  ELSE check_cycles(p, topological_sort(p))

\* build_dag raises DAGError for an unknown edge endpoint or a cycle
build_dag_raises(p) == build_dag(p).error # "none"

\* --------------------------------------------------------- node execution
\* _NodeExecutionResult plus the NodeTrace fields the executor reads back:
\* kind "ok" | "err" | "skip" (edge-gated) | "raise" (an exception on its way
\* out of an _execute_*_node function), out = node_trace.output,
\* input = node_trace.input, tskip = node_trace.skipped, msg = the error,
\* called = an external call (provider, tool, sub-workflow) was made
Res(kind, out, input, tskip, msg, called) ==
  [kind |-> kind, out |-> out, input |-> input, tskip |-> tskip, msg |-> msg, called |-> called]

\* the failure oracle of a run: the node whose external call raises, the
\* counter value at which this project's tools raise, and the counter value
\* at which the tools of a sub-workflow raise
Fail(node, at, sub_at) == [node |-> node, at |-> at, sub_at |-> sub_at]
NoFail == Fail(0, Never, Never)
SubFail(fail) == Fail(0, fail.sub_at, Never)

RECURSIVE apply_mappings(_, _, _)
apply_mappings(maps, source_output, inputs) ==
  IF maps = <<>> THEN inputs
  ELSE LET m == Head(maps)
           value == get_nested(source_output, m.source)
       IN apply_mappings(Tail(maps), source_output,
            IF value # None \/ m.target \notin DOMAIN inputs
            THEN Put(inputs, m.target, value) ELSE inputs)

RECURSIVE gather_edges(_, _, _)
gather_edges(edges, node_outputs, inputs) ==
  IF edges = <<>> THEN inputs
  ELSE LET source_output == GetOr(node_outputs, Head(edges).from)
       IN gather_edges(Tail(edges), node_outputs,
            IF source_output = EmptyDict THEN inputs
            ELSE apply_mappings(Head(edges).maps, source_output, inputs))

_gather_inputs(p, n, node_outputs) == gather_edges(incoming_edges(p, n), node_outputs, EmptyDict)

_should_execute_unconditional(edge, source_output) == TRUE

\* condition errors are treated as false
_should_execute(edge, source_output) ==
  IF edge.cond.op = "none" THEN TRUE ELSE evaluate(edge.cond, source_output) = "true"

should_run(p, n, node_outputs) ==
  \A e \in Range(incoming_edges(p, n)) : _should_execute(e, GetOr(node_outputs, e.from))

\* the increment tool: execute(counter) -> {"counter": counter + 1}; any other
\* argument set, a None counter or the failure oracle raises ToolError
_execute_tool_node(gathered, n, fail) ==
  IF DOMAIN gathered = {"counter"} /\ gathered["counter"] # None
     /\ n # fail.node /\ gathered["counter"] # fail.at
  THEN Res("ok", One("counter", gathered["counter"] + 1), gathered, FALSE, "none", TRUE)
  ELSE Res("raise", EmptyDict, gathered, FALSE, "tool", TRUE)

\* a text prompt: the provider's reply is a function of the rendered prompt
provider_complete(gathered) ==
  IF get_nested(gathered, "counter") = None THEN 0 ELSE gathered["counter"]

_execute_prompt_node(gathered, n, fail) ==
  IF n = fail.node THEN Res("raise", EmptyDict, gathered, FALSE, "provider", TRUE)
  ELSE Res("ok", One("text", provider_complete(gathered)), gathered, FALSE, "none", TRUE)

catch_nothing(r) == r

\* the except clause of _execute_node_async: an exception becomes an error result
catch(r) == IF r.kind = "raise" THEN [r EXCEPT !.kind = "err"] ELSE r

Skipped == Res("skip", EmptyDict, EmptyDict, TRUE, "none", FALSE)

\* _execute_node_async for the kinds that finish in one step
execute_simple(p, n, node_outputs, fail) ==
  LET gathered == _gather_inputs(p, n, node_outputs)
  IN IF ~should_run(p, n, node_outputs) THEN Skipped
     ELSE catch(CASE p.kind[n] = "input" -> Res("ok", GetOr(node_outputs, n), EmptyDict, FALSE, "none", FALSE)
                  [] p.kind[n] = "output" -> Res("ok", gathered, gathered, FALSE, "none", FALSE)
                  [] p.kind[n] = "prompt" -> _execute_prompt_node(gathered, n, fail)
                  [] p.kind[n] = "tool" -> _execute_tool_node(gathered, n, fail)
                  [] OTHER -> Res("ok", EmptyDict, EmptyDict, FALSE, "none", FALSE))

\* ------------------------------------------------------- run(), collected
\* result.outputs: a map output-node id -> dict (nested), or, when no output
\* node produced anything, the last produced node output itself (flat)
Outputs(nested, byNode, flat) == [nested |-> nested, byNode |-> byNode, flat |-> flat]
NoMap == [n \in {} |-> EmptyDict]
NoOutputs == Outputs(FALSE, NoMap, EmptyDict)

RECURSIVE last_output(_, _)
last_output(order, node_outputs) ==
  IF order = <<>> THEN EmptyDict
  ELSE IF order[Len(order)] \in DOMAIN node_outputs THEN node_outputs[order[Len(order)]]
  ELSE last_output(SubSeq(order, 1, Len(order) - 1), node_outputs)

final_outputs_of_every_node(p, order, node_outputs) ==
  Outputs(TRUE, [n \in DOMAIN node_outputs |-> node_outputs[n]], EmptyDict)

\* the final outputs: the outputs of the output nodes that have one, else the
\* output of the last node in execution order that has one
final_outputs(p, order, node_outputs) ==
  LET outs == output_nodes(p) \cap DOMAIN node_outputs
  IN IF outs # {} THEN Outputs(TRUE, [n \in outs |-> node_outputs[n]], EmptyDict)
     ELSE Outputs(FALSE, NoMap, last_output(order, node_outputs))

RECURSIVE merge_all(_, _)
merge_all(order, byNode) ==
  IF order = <<>> THEN EmptyDict
  ELSE Update(byNode[Head(order)], merge_all(Tail(order), byNode))

\* the flattening of sub_result.outputs in _execute_branch_node
flatten(raw) ==
  IF ~raw.nested THEN raw.flat
  ELSE IF Cardinality(DOMAIN raw.byNode) = 1 THEN raw.byNode[CHOOSE n \in DOMAIN raw.byNode : TRUE]
  ELSE merge_all(SortedSeq(DOMAIN raw.byNode), raw.byNode)

NoError == [node |-> 0, msg |-> "none"]

\* one level of a run without checkpoint: every node of the level executes
\* against the same node_outputs, then the results are merged in level order
RECURSIVE first_error(_, _)
first_error(level, results) ==
  IF level = <<>> THEN NoError
  ELSE IF results[Head(level)].kind = "err"
       THEN [node |-> Head(level), msg |-> results[Head(level)].msg]
       ELSE first_error(Tail(level), results)

merge_level(level, results, node_outputs) ==
  LET oks == {n \in Range(level) : results[n].kind = "ok"}
  IN [n \in (DOMAIN node_outputs) \cup oks |-> IF n \in oks THEN results[n].out ELSE node_outputs[n]]

seed_inputs(p, inputs) ==
  IF inputs = EmptyDict THEN NoMap ELSE [n \in input_nodes(p) |-> inputs]

RunResult(raised, err, outs) == [raised |-> raised, error |-> err, outputs |-> outs]

success(result) == ~result.raised /\ result.error = NoError

\* load_project(project.root / workflow_path)
sub_project(workflow) == IF workflow = "cycle" THEN CycleProject ELSE IncrementProject

\* Checkpoint (completed_at, session id, cost and turns left out)
Checkpoint(exists, status, completed, pending, branch_states, inputs) ==
  [exists |-> exists, status |-> status, completed_nodes |-> completed,
   pending_nodes |-> pending, branch_states |-> branch_states, inputs |-> inputs]
NoStates == [n \in {} |-> 0]
NoCheckpoint == Checkpoint(FALSE, "none", NoMap, <<>>, NoStates, EmptyDict)

\* run() on a sub-workflow (the recursive call of _execute_branch_node): the
\* sub-projects have no branch node of their own
RECURSIVE sub_levels(_, _, _, _, _, _)
sub_levels(p, d, fail, lv, node_outputs, err) ==
  IF lv > Len(d.execution_levels) \/ err # NoError
  THEN [node_outputs |-> node_outputs, error |-> err]
  ELSE LET level == d.execution_levels[lv]
           results == [n \in Range(level) |-> execute_simple(p, n, node_outputs, fail)]
       IN sub_levels(p, d, fail, lv + 1, merge_level(level, results, node_outputs),
                     first_error(level, results))

sub_run_on(p, d, inputs, fail) ==
  IF d.error # "none" \/ p.entrypoints = <<>> THEN RunResult(TRUE, NoError, NoOutputs)
  ELSE LET end == sub_levels(p, d, fail, 1, seed_inputs(p, inputs), NoError)
       IN RunResult(FALSE, end.error, final_outputs(p, d.execution_order, end.node_outputs))

sub_run(p, inputs, fail) == sub_run_on(p, build_dag(p), inputs, fail)

RECURSIVE branch_loop(_, _, _, _)

\* ------------------------------------------------------------ branch node
branch_start_without_skip(p, n, node_outputs, checkpoint) ==
  [to |-> "loop", msg |-> "none", gathered |-> _gather_inputs(p, n, node_outputs), it |-> 0]

\* _execute_branch_node up to the loop: "skip" (pre-condition false, inputs
\* passed through), "err", or "loop" with the starting iteration
branch_start(p, n, node_outputs, checkpoint) ==
  LET b == p.branches[n]
      gathered == _gather_inputs(p, n, node_outputs)
      pre == IF b.condition.op = "none" THEN "true" ELSE evaluate(b.condition, gathered)
  IN IF pre = "err" THEN [to |-> "err", msg |-> "branch_cond", gathered |-> gathered, it |-> 0]
     ELSE IF pre = "false" THEN [to |-> "skip", msg |-> "none", gathered |-> gathered, it |-> 0]
     ELSE IF b.workflow = "missing" THEN [to |-> "err", msg |-> "not_found", gathered |-> gathered, it |-> 0]
     ELSE [to |-> "loop", msg |-> "none", gathered |-> gathered,
           it |-> IF checkpoint.exists /\ n \in DOMAIN checkpoint.branch_states
                  THEN checkpoint.branch_states[n] + 1 ELSE 0]

loop_decision_late_stop(b, flat, iteration) ==
  IF b.loop_while.op = "none" THEN "break"
  ELSE LET c == evaluate(b.loop_while, flat)
       IN IF c = "err" THEN "loop_cond"
          ELSE IF c = "false" THEN "break"
          ELSE IF iteration + 1 > b.max_iterations THEN "max_iter"
          ELSE "continue"

loop_decision_stops_on_true(b, flat, iteration) ==
  IF b.loop_while.op = "none" THEN "break"
  ELSE LET c == evaluate(b.loop_while, flat)
       IN IF c = "err" THEN "loop_cond"
          ELSE IF c = "true" THEN "break"
          ELSE IF iteration + 1 >= b.max_iterations THEN "max_iter"
          ELSE "continue"

\* has the loop to go on after an iteration with these flattened outputs
loop_decision(b, flat, iteration) ==
  IF b.loop_while.op = "none" THEN "break"
  ELSE LET c == evaluate(b.loop_while, flat)
       IN IF c = "err" THEN "loop_cond"
          ELSE IF c = "false" THEN "break"
          ELSE IF iteration + 1 >= b.max_iterations THEN "max_iter"
          ELSE "continue"

\* one pass of the while loop of _execute_branch_node
branch_iteration(b, current_inputs, iteration, fail) ==
  LET sub == sub_run(sub_project(b.workflow), current_inputs, SubFail(fail))
      flat == flatten(sub.outputs)
      d == loop_decision(b, flat, iteration)
  IN IF sub.raised
     THEN [raised |-> TRUE, ok |-> FALSE, done |-> TRUE, kind |-> "raise", msg |-> "sub_raised",
           out |-> EmptyDict, cur |-> current_inputs, it |-> iteration]
     ELSE IF ~success(sub)
     THEN [raised |-> FALSE, ok |-> FALSE, done |-> TRUE, kind |-> "raise", msg |-> "sub_failed",
           out |-> EmptyDict, cur |-> current_inputs, it |-> iteration]
     ELSE IF d = "break"
     THEN [raised |-> FALSE, ok |-> TRUE, done |-> TRUE, kind |-> "ok", msg |-> "none",
           out |-> flat, cur |-> current_inputs, it |-> iteration]
     ELSE IF d = "continue"
     THEN [raised |-> FALSE, ok |-> TRUE, done |-> FALSE, kind |-> "ok", msg |-> "none",
           out |-> flat, cur |-> flat, it |-> iteration + 1]
     ELSE [raised |-> FALSE, ok |-> TRUE, done |-> TRUE, kind |-> "raise", msg |-> d,
           out |-> flat, cur |-> current_inputs, it |-> iteration]

branch_loop(b, current_inputs, iteration, fail) ==
  LET step == branch_iteration(b, current_inputs, iteration, fail)
  IN IF step.done THEN step ELSE branch_loop(b, step.cur, step.it, fail)

\* a whole branch node of a run without checkpoint
execute_branch(p, n, node_outputs, fail) ==
  LET s == branch_start(p, n, node_outputs, NoCheckpoint)
      end == branch_loop(p.branches[n], s.gathered, s.it, fail)
  IN IF ~should_run(p, n, node_outputs) THEN Skipped
     ELSE IF s.to = "err" THEN catch(Res("raise", EmptyDict, s.gathered, FALSE, s.msg, FALSE))
     ELSE IF s.to = "skip" THEN Res("ok", s.gathered, s.gathered, TRUE, "none", FALSE)
     ELSE catch(Res(end.kind, IF end.kind = "ok" THEN end.out ELSE EmptyDict, s.gathered, FALSE, end.msg, TRUE))

execute_node(p, n, node_outputs, fail) ==
  IF p.kind[n] = "branch" THEN execute_branch(p, n, node_outputs, fail)
  ELSE execute_simple(p, n, node_outputs, fail)

RECURSIVE pure_levels(_, _, _, _, _, _)
pure_levels(p, d, fail, lv, node_outputs, err) ==
  IF lv > Len(d.execution_levels) \/ err # NoError
  THEN [node_outputs |-> node_outputs, error |-> err]
  ELSE LET level == d.execution_levels[lv]
           results == [n \in Range(level) |-> execute_node(p, n, node_outputs, fail)]
       IN pure_levels(p, d, fail, lv + 1, merge_level(level, results, node_outputs),
                      first_error(level, results))

pure_run_on(p, d, inputs, fail) ==
  IF d.error # "none" \/ p.entrypoints = <<>> THEN RunResult(TRUE, NoError, NoOutputs)
  ELSE LET end == pure_levels(p, d, fail, 1, seed_inputs(p, inputs), NoError)
       IN RunResult(FALSE, end.error, final_outputs(p, d.execution_order, end.node_outputs))

\* run() without checkpoint, artifacts or crash: the uninterrupted run
pure_run(p, inputs, fail) == pure_run_on(p, build_dag(p), inputs, fail)

\* ------------------------------------------------------------------ state
\* ------------------------------------------------------ the signal files
MaxSignalCalls == 4

\* the signal types clear_signals removes, in its order
SignalTypes == <<"started", "completed", "failed", "ready">>

\* a workflow, and one whose name ends like a signal file of the first
Workflows == {"build", "build.started"}

\* metadata=None, among dict values
NoMetadata == One("None", None)

\* the run id of the manager, and what a caller passes as (outputs_path, metadata)
SignalArgs ==
  {[run_id |-> 1, outputs_path |-> None, metadata |-> NoMetadata],
   [run_id |-> 2, outputs_path |-> 7, metadata |-> One("error", 1)]}

\* the Signal dataclass
Signal(signal_type, run_id, timestamp, workflow, outputs_path, metadata) ==
  [signal_type |-> signal_type, run_id |-> run_id, timestamp |-> timestamp, workflow |-> workflow,
   outputs_path |-> outputs_path, metadata |-> metadata]

\* the name of the file Signal.save writes in the signals directory
signal_path(workflow, signal_type) == workflow \o "." \o signal_type

\* json.dumps(asdict(signal)): the JSON object, key by key
signal_dumps(signal) ==
  [k \in {"signal_type", "run_id", "timestamp", "workflow", "outputs_path", "metadata"} |->
     CASE k = "signal_type" -> signal.signal_type
       [] k = "run_id" -> signal.run_id
       [] k = "timestamp" -> signal.timestamp
       [] k = "workflow" -> signal.workflow
       [] k = "outputs_path" -> signal.outputs_path
       [] k = "metadata" -> signal.metadata]

\* Signal.load: cls(**json.loads(text))
signal_load(data) ==
  Signal(data["signal_type"], data["run_id"], data["timestamp"], data["workflow"],
         data["outputs_path"], data["metadata"])

\* Signal.save: one file per workflow and type, overwritten
signal_save(files, signal) ==
  Put(files, signal_path(signal.workflow, signal.signal_type), signal_dumps(signal))

\* the Signal emit_signal builds at the time now
new_signal(signal_type, workflow_name, args, now) ==
  Signal(signal_type, args.run_id, now, workflow_name, args.outputs_path,
         IF args.metadata = NoMetadata THEN EmptyDict ELSE args.metadata)

\* ArtifactManager.emit_signal, of a manager with config.emit_signals = enabled
emit_signal(files, enabled, signal_type, workflow_name, args, now) ==
  IF ~enabled THEN files
  ELSE signal_save(files, new_signal(signal_type, workflow_name, args, now))

Remove(d, k) == [x \in (DOMAIN d) \ {k} |-> d[x]]

RECURSIVE unlink_types(_, _, _, _)
unlink_types(files, workflow_name, types, i) ==
  IF i > Len(types) THEN files
  ELSE unlink_types(Remove(files, signal_path(workflow_name, types[i])), workflow_name, types, i + 1)

clear_signals_but_ready(files, workflow_name) ==
  unlink_types(files, workflow_name, SubSeq(SignalTypes, 1, 3), 1)

\* ArtifactManager.clear_signals
clear_signals(files, workflow_name) == unlink_types(files, workflow_name, SignalTypes, 1)

\* the signals directory after a call of emit_signal, with what the call emitted
after_emit(s, enabled, t, w, args, now) ==
  [s EXCEPT !.files = emit_signal(s.files, enabled, t, w, args, now),
            !.last = IF enabled THEN Put(s.last, <<w, t>>, new_signal(t, w, args, now)) ELSE s.last,
            !.overwritten = s.overwritten \/ (enabled /\ signal_path(w, t) \in DOMAIN s.files)]

\* the signals directory after a call of clear_signals
after_clear(s, w) ==
  [s EXCEPT !.files = clear_signals(s.files, w),
            !.last = [k \in {x \in DOMAIN s.last : x[1] # w} |-> s.last[k]],
            !.cleared = s.cleared \/ \E x \in DOMAIN s.last : x[1] = w]

VARIABLES
  project,          \* the loaded project
  inputs,           \* the inputs of the first run() call
  fail,             \* the failure oracle (the nodes are deterministic)
  artifact_dir,     \* is artifact_dir given to the run() calls
  emit_signals,     \* is emit_signals given to the run() calls
  pc,               \* "init" | "level" | "tasks" | "returned" | "raised" | "crashed"
  checkpoint_dir,   \* is checkpoint_dir given to the current run() call
  checkpoint,       \* the Checkpoint object of the current run (exists = FALSE: None)
  disk,             \* the checkpoint file <checkpoint_dir>/<run_id>.json
  node_outputs,     \* node id -> output dict
  trace,            \* trace.nodes
  execution_error,  \* the NodeExecutionError, or NoError
  lvl,              \* index of the level the loop of _execute_levels is at
  nodes_to_execute, \* the tasks of the current level, in level order
  results,          \* results of the tasks finished in the current run: node id -> result
  loops,            \* branch tasks inside their while loop: node id -> loop state
  processed,        \* how many results of the level have been processed
  result,           \* the ExecutionResult of the last run() that returned
  resumes,          \* number of resumes so far
  loaded,           \* the checkpoint as loaded by the current resumed run
  started,          \* nodes dispatched as tasks by the current run
  calls,            \* external calls made by the current run, per node
  finished,         \* nodes that finished successfully (replayed ones included)
  iterations,       \* sub-workflow iterations run so far, over all runs
  previous,         \* the ExecutionResult of the run a resume follows, if it returned
  start_from,       \* the start_from of the current run() call, None when not given
  artifacts,        \* the run directory <artifact_dir>/runs/<run_id> and the run's manifest entry
  dag,              \* the last project given to build_dag and what build_dag returned or raised
  sig,              \* the signals directory, and what was emitted since the last clear
  wait,             \* a call of wait_for_signals: its config, locals and position, and the clock
  ckpt,             \* a Checkpoint object, the files it was saved to and what was loaded from them
  mgr,              \* ArtifactManager objects of one base directory, its manifest and branch files
  call              \* a function of the runtime called on its own: its arguments and what it returned

cfg == <<project, inputs, fail, artifact_dir, emit_signals>>
run_vars == <<node_outputs, trace, execution_error, lvl, nodes_to_execute, results, loops, processed>>
hist == <<resumes, loaded, started, calls, finished, iterations, previous, start_from>>
side == <<dag, sig, wait, ckpt, mgr, call>>
not_dag == <<sig, wait, ckpt, mgr, call>>
not_sig == <<dag, wait, ckpt, mgr, call>>
not_wait == <<dag, sig, ckpt, mgr, call>>
not_ckpt == <<dag, sig, wait, mgr, call>>
not_mgr == <<dag, sig, wait, ckpt, call>>
not_call == <<dag, sig, wait, ckpt, mgr>>
main_vars == <<cfg, pc, checkpoint_dir, checkpoint, disk, run_vars, result, hist, artifacts>>
vars == <<main_vars, side>>

NoResults == [n \in {} |-> Skipped]
NoLoops == [n \in {} |-> [cur |-> EmptyDict, it |-> 0, gathered |-> EmptyDict, ran |-> 0]]
NoResult == RunResult(TRUE, NoError, NoOutputs)
NoCalls == [n \in {} |-> 0]

InputSet == {EmptyDict} \cup {One("counter", c) : c \in 0..MaxCounter}
FailSet == {NoFail, Fail(2, Never, Never), Fail(3, Never, Never), Fail(0, Never, 1)}

levels == execution_levels(project)

\* Checkpoint.save followed by Checkpoint.load: the JSON document keeps every
\* field; a field missing from the document gets its default
save(cp) == [cp EXCEPT !.exists = TRUE]
load(file) == file

TraceEntry(id, skipped, error, replayed) ==
  [id |-> id, skipped |-> skipped, error |-> error, replayed |-> replayed]

\* an empty run directory, no manifest entry for the run
NoArtifacts ==
  [checkpoint |-> NoCheckpoint,
   trace |-> [exists |-> FALSE, nodes |-> <<>>],
   outputs |-> [exists |-> FALSE, outputs |-> NoOutputs],
   status |-> "none",
   success |-> "None",
   error_summary |-> NoError,
   branches |-> EmptyDict]

NoDag == [project |-> NoEntryProject, built |-> FALSE, result |-> build_dag(NoEntryProject)]

\* an empty signals directory
NoSignals == [files |-> EmptyDict, last |-> EmptyDict, calls |-> 0, overwritten |-> FALSE, cleared |-> FALSE]

\* no call of wait_for_signals
NoWait ==
  [signals |-> <<>>, timeout_seconds |-> 0, poll_interval |-> 1, pc |-> "idle", clock |-> 0,
   start |-> 0, elapsed |-> 0, i |-> 1, results |-> EmptyDict, missing |-> <<>>, present |-> FALSE]

\* no Checkpoint object, no checkpoint file
NoCkpt == [c |-> EmptyDict, file |-> EmptyDict, artifact |-> EmptyDict, loaded |-> EmptyDict, calls |-> 0]

DagIdle == dag = NoDag

CkptIdle == ckpt = NoCkpt

\* no ArtifactManager, an empty base directory
NoManagers ==
  [manifest |-> <<>>, cache |-> EmptyDict, now |-> 0, last |-> EmptyDict, branch_files |-> EmptyDict, saved |-> <<>>]

MgrIdle == mgr = NoManagers

\* no function called
NoCall == [fn |-> "none", args |-> EmptyDict, returned |-> FALSE, result |-> EmptyDict]

CallIdle == call = NoCall

WaitIdle == wait = NoWait

SigIdle == sig = NoSignals

\* nothing has happened yet outside run()
SideInit ==
  /\ DagIdle
  /\ SigIdle
  /\ WaitIdle
  /\ CkptIdle
  /\ MgrIdle
  /\ CallIdle

\* the state before run() is called
RunInit ==
  /\ pc = "init"
  /\ checkpoint = NoCheckpoint
  /\ disk = NoCheckpoint
  /\ node_outputs = NoMap
  /\ trace = <<>>
  /\ execution_error = NoError
  /\ lvl = 1
  /\ nodes_to_execute = <<>>
  /\ results = NoResults
  /\ loops = NoLoops
  /\ processed = 0
  /\ result = NoResult
  /\ resumes = 0
  /\ loaded = NoCheckpoint
  /\ started = {}
  /\ calls = NoCalls
  /\ finished = {}
  /\ iterations = <<>>
  /\ previous = NoResult
  /\ start_from = None
  /\ artifacts = NoArtifacts

\* no run() call is under way
RunIdle ==
  /\ project = NoEntryProject
  /\ inputs = EmptyDict
  /\ fail = NoFail
  /\ artifact_dir = FALSE
  /\ emit_signals = FALSE
  /\ checkpoint_dir = FALSE
  /\ RunInit

Init ==
  /\ project \in Projects
  /\ inputs \in InputSet
  /\ fail \in FailSet
  /\ artifact_dir = FALSE
  /\ emit_signals = FALSE
  /\ checkpoint_dir \in BOOLEAN
  /\ RunInit
  /\ SideInit

\* ArtifactManager.register_run: upsert of the manifest entry, status running
register_run(a) == [a EXCEPT !.status = "running", !.success = "None", !.error_summary = NoError]

\* ArtifactManager.update_run_status
update_run_status_keeps_summary(a, error) ==
  [a EXCEPT !.status = IF error = NoError THEN "completed" ELSE "failed",
            !.success = IF error = NoError THEN "True" ELSE "False"]

\* run(): artifact_manager.update_run_status(status, success, error_summary)
update_run_status(a, error) ==
  [a EXCEPT !.status = IF error = NoError THEN "completed" ELSE "failed",
            !.success = IF error = NoError THEN "True" ELSE "False",
            !.error_summary = error]

\* ArtifactManager.save_checkpoint: checkpoint.json
save_checkpoint(a, cp) == [a EXCEPT !.checkpoint = [cp EXCEPT !.exists = TRUE]]

\* ArtifactManager.save_trace: trace.json
save_trace(a, nodes) == [a EXCEPT !.trace = [exists |-> TRUE, nodes |-> nodes]]

\* ArtifactManager.save_outputs: outputs.json
save_outputs(a, outs) == [a EXCEPT !.outputs = [exists |-> TRUE, outputs |-> outs]]

\* BranchIterationState (outputs and timestamps left out)
BranchIterationState(branch_id, iteration, state_inputs, state_success) ==
  [branch_id |-> branch_id, iteration |-> iteration, inputs |-> state_inputs, success |-> state_success]

save_branch_iteration_first_only(a, state) ==
  [a EXCEPT !.branches = Put(a.branches, <<state.branch_id, 0>>, state)]

\* ArtifactManager.save_branch_iteration: branches/<branch_id>/iteration_<n>.json
save_branch_iteration(a, state) ==
  [a EXCEPT !.branches = Put(a.branches, <<state.branch_id, state.iteration>>, state)]

\* the artifact manager of the run, when artifact_dir is given
init_artifacts(a) == IF artifact_dir THEN register_run(a) ELSE a

\* the path of outputs.json in the run directory
OutputsPath == 7

\* what run() passes to emit_signal besides the type and the workflow name
RunSignalArgs(outputs_path) == [run_id |-> 1, outputs_path |-> outputs_path, metadata |-> NoMetadata]

\* at run start with signal emission: clear the signals of the workflow, emit started
start_signals(s, now) ==
  IF artifact_dir /\ emit_signals
  THEN after_emit(after_clear(s, project.name), TRUE, "started", project.name, RunSignalArgs(None), now)
  ELSE s

\* at the end of the run with signal emission: emit completed, with the
\* outputs file, or failed
end_signals(s, error, now) ==
  IF artifact_dir /\ emit_signals
  THEN IF error = NoError
       THEN after_emit(s, TRUE, "completed", project.name, RunSignalArgs(OutputsPath), now)
       ELSE after_emit(s, TRUE, "failed", project.name, RunSignalArgs(None), now)
  ELSE s

\* the state every run() call starts its level loop from
BeginRun(cp, outs) ==
  /\ checkpoint' = cp
  /\ node_outputs' = outs
  /\ trace' = <<>>
  /\ execution_error' = NoError
  /\ lvl' = 1
  /\ nodes_to_execute' = <<>>
  /\ results' = NoResults
  /\ loops' = NoLoops
  /\ processed' = 0
  /\ started' = {}
  /\ calls' = [n \in Nodes(project) |-> 0]

\* run(project, inputs=inputs, checkpoint_dir=...) up to the level loop
StartRun ==
  /\ pc = "init"
  /\ UNCHANGED <<cfg, not_sig, checkpoint_dir, result, resumes, loaded, finished, iterations, previous, start_from>>
  /\ IF build_dag_raises(project) \/ project.entrypoints = <<>>
     THEN /\ pc' = "raised"
          /\ UNCHANGED <<checkpoint, disk, run_vars, started, calls, artifacts, sig>>
     ELSE LET cp == IF checkpoint_dir
                    THEN Checkpoint(TRUE, "running", NoMap, execution_order(project), NoStates, inputs)
                    ELSE NoCheckpoint
          IN /\ pc' = "level"
             /\ disk' = IF checkpoint_dir THEN save(cp) ELSE disk
             /\ artifacts' = init_artifacts(artifacts)
             /\ sig' = start_signals(sig, resumes)
             /\ BeginRun(cp, seed_inputs(project, inputs))

\* [edge.from_node for edge in node.incoming_edges], [] for an unknown node
get_upstream_nodes(p, n) ==
  IF n \in Nodes(p)
  THEN [i \in 1..Len(incoming_edges(p, n)) |-> incoming_edges(p, n)[i].from]
  ELSE <<>>

\* the while loop of get_ancestors: to_visit.pop() takes the last element
RECURSIVE visit_ancestors(_, _, _)
visit_ancestors(p, to_visit, ancestors) ==
  IF to_visit = <<>> THEN ancestors
  ELSE LET current == to_visit[Len(to_visit)]
           rest == SubSeq(to_visit, 1, Len(to_visit) - 1)
       IN IF current \notin ancestors
          THEN visit_ancestors(p, rest \o get_upstream_nodes(p, current), ancestors \cup {current})
          ELSE visit_ancestors(p, rest, ancestors)

get_ancestors_direct(p, n) == Range(get_upstream_nodes(p, n))

\* get_ancestors: the transitive upstream closure of a node
get_ancestors(p, n) == visit_ancestors(p, get_upstream_nodes(p, n), {})

\* the ancestors of start_from the resumed checkpoint does not hold
missing_ancestors(cp, x) ==
  IF x = None THEN {} ELSE get_ancestors(project, x) \ DOMAIN cp.completed_nodes

\* the checkpoint a run resumes with: with start_from, only the ancestors
\* of start_from stay completed, every other node is executed again
resume_checkpoint(cp, x) ==
  IF x = None THEN cp
  ELSE [cp EXCEPT !.completed_nodes =
          [n \in (DOMAIN cp.completed_nodes) \cap get_ancestors(project, x) |-> cp.completed_nodes[n]]]

\* run(project, resume_from=<run id or path>, start_from=x, checkpoint_dir=...)
\* after a crash or a finished run, up to the level loop
ResumeRun(x) ==
  /\ pc \in {"crashed", "returned"}
  /\ resumes < MaxResumes
  /\ resumes' = resumes + 1
  /\ start_from' = x
  /\ previous' = IF pc = "returned" THEN result ELSE NoResult
  /\ UNCHANGED <<cfg, not_sig, disk, result, iterations>>
  /\ \E dir \in BOOLEAN :
       /\ checkpoint_dir' = dir
       /\ IF ~disk.exists
          THEN /\ pc' = "raised"
               /\ BeginRun(NoCheckpoint, NoMap)
               /\ UNCHANGED <<loaded, finished, artifacts, sig>>
          ELSE IF missing_ancestors(load(disk), x) # {}
          THEN /\ pc' = "raised"
               /\ loaded' = load(disk)
               /\ BeginRun(NoCheckpoint, NoMap)
               /\ UNCHANGED <<finished, artifacts, sig>>
          ELSE LET cp == [resume_checkpoint(load(disk), x) EXCEPT !.status = "running"]
               IN /\ pc' = "level"
                  /\ artifacts' = init_artifacts(artifacts)
                  /\ sig' = start_signals(sig, resumes + 1)
                  /\ loaded' = load(disk)
                  /\ finished' = DOMAIN cp.completed_nodes
                  /\ BeginRun(cp, Update(seed_inputs(project, cp.inputs), cp.completed_nodes))

\* run(project, resume_from=<run id or path>, checkpoint_dir=...)
Resume == ResumeRun(None)

\* run(project, resume_from=<run id or path>, start_from=<node id>, ...)
ResumeFrom == \E x \in Nodes(project) : ResumeRun(x)

\* ------------------------------------------------------- _execute_levels
IsCompleted(cp, n) == cp.exists /\ n \in DOMAIN cp.completed_nodes

skip_nodes(level, cp) == SelectSeq(level, LAMBDA n : IsCompleted(cp, n))

execute_nodes_all(level, cp) == level

execute_nodes(level, cp) == SelectSeq(level, LAMBDA n : ~IsCompleted(cp, n))

replay_entries_reversed(ns) == [i \in 1..Len(ns) |-> TraceEntry(ns[Len(ns) + 1 - i], FALSE, FALSE, TRUE)]

\* the trace entries of the nodes of a level that the checkpoint holds
replay_entries(ns) == [i \in 1..Len(ns) |-> TraceEntry(ns[i], FALSE, FALSE, TRUE)]

loop_continues_after_error(error, lv) == lv <= Len(levels)

\* does the level loop go on to the next level
loop_continues(error, lv) == error = NoError /\ lv <= Len(levels)

\* top of the loop body: partition the level, replay the completed nodes
\* from the checkpoint, create the tasks of the others
BeginLevel ==
  /\ pc = "level"
  /\ loop_continues(execution_error, lvl)
  /\ LET skip == skip_nodes(levels[lvl], checkpoint)
         exec == execute_nodes(levels[lvl], checkpoint)
     IN /\ trace' = trace \o replay_entries(skip)
        /\ IF exec = <<>>
           THEN /\ lvl' = lvl + 1
                /\ nodes_to_execute' = <<>>
                /\ UNCHANGED <<pc, started>>
           ELSE /\ pc' = "tasks"
                /\ nodes_to_execute' = exec
                /\ started' = started \cup Range(exec)
                /\ lvl' = lvl
        /\ loops' = NoLoops
        /\ processed' = 0
  /\ UNCHANGED <<cfg, side, artifacts, checkpoint_dir, checkpoint, disk, node_outputs, execution_error, result, results,
                 resumes, loaded, calls, finished, iterations, previous, start_from>>

Running(n) == pc = "tasks" /\ n \in Range(nodes_to_execute) /\ n \notin DOMAIN results

Finish(n, r) ==
  /\ results' = [m \in (DOMAIN results) \cup {n} |-> IF m = n THEN r ELSE results[m]]
  /\ finished' = IF r.kind = "ok" THEN finished \cup {n} ELSE finished

task_publish_own_key(outs, n, r) ==
  IF r.kind = "ok" THEN [m \in (DOMAIN outs) \cup {n} |-> IF m = n THEN r.out ELSE outs[m]] ELSE outs

\* what a finished task itself writes to the NodeOutput map: nothing, it
\* returns its _NodeExecutionResult and the level loop merges it after gather
task_publish(outs, n, r) == outs

\* a task of an input, output, prompt or tool node runs to its result
NodeTask(n) ==
  /\ Running(n)
  /\ project.kind[n] # "branch"
  /\ LET r == execute_simple(project, n, node_outputs, fail)
     IN /\ Finish(n, r)
        /\ node_outputs' = task_publish(node_outputs, n, r)
        /\ calls' = [calls EXCEPT ![n] = @ + (IF r.called THEN 1 ELSE 0)]
  /\ UNCHANGED <<cfg, side, artifacts, pc, checkpoint_dir, checkpoint, disk, trace, execution_error,
                 lvl, nodes_to_execute, loops, processed, result, resumes, loaded, started, iterations, previous, start_from>>

\* a branch task up to its while loop
BranchStart(n) ==
  /\ Running(n)
  /\ project.kind[n] = "branch"
  /\ n \notin DOMAIN loops
  /\ LET s == branch_start(project, n, node_outputs, checkpoint)
     IN IF ~should_run(project, n, node_outputs)
        THEN Finish(n, Skipped) /\ UNCHANGED loops
        ELSE IF s.to = "err"
        THEN Finish(n, catch(Res("raise", EmptyDict, s.gathered, FALSE, s.msg, FALSE))) /\ UNCHANGED loops
        ELSE IF s.to = "skip"
        THEN Finish(n, Res("ok", s.gathered, s.gathered, TRUE, "none", FALSE)) /\ UNCHANGED loops
        ELSE /\ loops' = [m \in (DOMAIN loops) \cup {n} |->
                            IF m = n THEN [cur |-> s.gathered, it |-> s.it, gathered |-> s.gathered, ran |-> 0]
                            ELSE loops[m]]
             /\ UNCHANGED <<results, finished>>
  /\ UNCHANGED <<cfg, side, artifacts, pc, checkpoint_dir, checkpoint, disk, node_outputs, trace, execution_error,
                 lvl, nodes_to_execute, processed, result, resumes, loaded, started, calls, iterations, previous, start_from>>

\* the checkpoint after an iteration of branch n that returned
record_iteration(cp, n, step, iteration) ==
  IF cp.exists
  THEN [cp EXCEPT !.branch_states =
          [m \in (DOMAIN cp.branch_states) \cup {n} |-> IF m = n THEN iteration ELSE cp.branch_states[m]]]
  ELSE cp

\* one pass of the while loop of a branch task: the sub-workflow runs, the
\* iteration is recorded in the checkpoint and saved, the loop goes on or ends
BranchIterate(n) ==
  /\ Running(n)
  /\ n \in DOMAIN loops
  /\ LET b == project.branches[n]
         l == loops[n]
         step == branch_iteration(b, l.cur, l.it, fail)
         cp == IF step.raised THEN checkpoint ELSE record_iteration(checkpoint, n, step, l.it)
     IN /\ checkpoint' = cp
        /\ disk' = IF ~step.raised /\ cp.exists /\ checkpoint_dir THEN save(cp) ELSE disk
        /\ artifacts' = IF artifact_dir /\ ~step.raised
                        THEN save_branch_iteration(artifacts, BranchIterationState(n, l.it, l.cur, step.ok))
                        ELSE artifacts
        /\ calls' = [calls EXCEPT ![n] = @ + 1]
        /\ iterations' = Append(iterations,
              [node |-> n, run |-> resumes, it |-> l.it, ok |-> step.ok, raised |-> step.raised,
               input |-> l.cur, out |-> step.out])
        /\ IF step.done
           THEN /\ Finish(n, catch(Res(step.kind, IF step.kind = "ok" THEN step.out ELSE EmptyDict,
                                       l.gathered, FALSE, step.msg, TRUE)))
                /\ loops' = [m \in (DOMAIN loops) \ {n} |-> loops[m]]
           ELSE /\ loops' = [loops EXCEPT ![n] = [cur |-> step.cur, it |-> step.it,
                                                  gathered |-> l.gathered, ran |-> l.ran + 1]]
                /\ UNCHANGED <<results, finished>>
  /\ UNCHANGED <<cfg, side, pc, checkpoint_dir, node_outputs, trace, execution_error,
                 lvl, nodes_to_execute, processed, result, resumes, loaded, started, previous, start_from>>

complete_node_not_recorded(cp, n, r) == cp

complete_node_still_pending(cp, n, r) ==
  [cp EXCEPT !.completed_nodes =
                [m \in (DOMAIN cp.completed_nodes) \cup {n} |-> IF m = n THEN r.out ELSE cp.completed_nodes[m]]]

\* the checkpoint after the result r of node n has been processed
complete_node(cp, n, r) ==
  [cp EXCEPT !.completed_nodes =
                [m \in (DOMAIN cp.completed_nodes) \cup {n} |-> IF m = n THEN r.out ELSE cp.completed_nodes[m]],
             !.pending_nodes = SelectSeq(cp.pending_nodes, LAMBDA m : m # n)]

\* is the level finished once `done` of its results have been processed
level_done(done, tasks) == done = Len(tasks)

\* after asyncio.gather: one pass of the loop over the results of the level;
\* an exception that escaped a task is re-raised by gather and leaves run()
ProcessResult ==
  /\ pc = "tasks"
  /\ Range(nodes_to_execute) \subseteq DOMAIN results
  /\ processed < Len(nodes_to_execute)
  /\ LET n == nodes_to_execute[processed + 1]
         r == results[n]
         persist == checkpoint.exists /\ checkpoint_dir
         cp == IF ~persist THEN checkpoint
               ELSE IF r.kind = "err"
               THEN (IF execution_error = NoError THEN [checkpoint EXCEPT !.status = "failed"] ELSE checkpoint)
               ELSE IF r.kind = "ok" THEN complete_node(checkpoint, n, r)
               ELSE checkpoint
     IN IF \E m \in Range(nodes_to_execute) : results[m].kind = "raise"
        THEN /\ pc' = "raised"
             /\ UNCHANGED <<trace, execution_error, node_outputs, checkpoint, disk, processed, lvl>>
        ELSE /\ trace' = Append(trace, TraceEntry(n, r.tskip, r.kind = "err", FALSE))
             /\ execution_error' = IF r.kind = "err" /\ execution_error = NoError
                                   THEN [node |-> n, msg |-> r.msg] ELSE execution_error
             /\ node_outputs' = IF r.kind = "ok"
                                THEN [m \in (DOMAIN node_outputs) \cup {n} |->
                                        IF m = n THEN r.out ELSE node_outputs[m]]
                                ELSE node_outputs
             /\ checkpoint' = cp
             /\ disk' = IF persist /\ (r.kind = "ok" \/ (r.kind = "err" /\ execution_error = NoError))
                        THEN save(cp) ELSE disk
             /\ processed' = processed + 1
             /\ IF level_done(processed + 1, nodes_to_execute)
                THEN pc' = "level" /\ lvl' = lvl + 1
                ELSE UNCHANGED <<pc, lvl>>
  /\ UNCHANGED <<cfg, side, artifacts, checkpoint_dir, nodes_to_execute, results, loops, result,
                 resumes, loaded, started, calls, finished, iterations, previous, start_from>>

\* the ExecutionResult run() returns
execution_result == RunResult(FALSE, execution_error, final_outputs(project, execution_order(project), node_outputs))

\* after the level loop: collect the final outputs, final checkpoint update;
\* without an artifact manager, return the ExecutionResult
Return ==
  /\ pc = "level"
  /\ ~loop_continues(execution_error, lvl)
  /\ LET persist == checkpoint.exists /\ checkpoint_dir
         cp == IF persist
               THEN [checkpoint EXCEPT !.status = IF execution_error = NoError THEN "completed" ELSE "failed"]
               ELSE checkpoint
     IN /\ checkpoint' = cp
        /\ disk' = IF persist THEN save(cp) ELSE disk
        /\ result' = IF artifact_dir THEN result ELSE execution_result
        /\ pc' = IF artifact_dir THEN "save_checkpoint" ELSE "returned"
  /\ UNCHANGED <<cfg, side, artifacts, checkpoint_dir, run_vars, hist>>

IsSuccessful(t) == ~t.skipped /\ ~t.error

\* the checkpoint run() builds from the trace when it tracks none
final_checkpoint ==
  LET done == SelectSeq(trace, IsSuccessful)
      ids == {done[i].id : i \in 1..Len(done)}
  IN Checkpoint(TRUE, IF execution_error = NoError THEN "completed" ELSE "failed",
                [n \in ids |-> node_outputs[n]], <<>>, NoStates, inputs)

\* artifact_manager.save_checkpoint of the tracked checkpoint, else of the
\* one built from the trace
SaveCheckpoint ==
  /\ pc = "save_checkpoint"
  /\ artifacts' = IF checkpoint.exists THEN save_checkpoint(artifacts, checkpoint)
                  ELSE IF ~checkpoint_dir THEN save_checkpoint(artifacts, final_checkpoint)
                  ELSE artifacts
  /\ pc' = "save_trace"
  /\ UNCHANGED <<cfg, side, checkpoint_dir, checkpoint, disk, run_vars, result, hist>>

\* artifact_manager.save_trace(trace)
SaveTrace ==
  /\ pc = "save_trace"
  /\ artifacts' = save_trace(artifacts, trace)
  /\ pc' = "save_outputs"
  /\ UNCHANGED <<cfg, side, checkpoint_dir, checkpoint, disk, run_vars, result, hist>>

\* artifact_manager.save_outputs(final_outputs)
SaveOutputs ==
  /\ pc = "save_outputs"
  /\ artifacts' = save_outputs(artifacts, execution_result.outputs)
  /\ pc' = "update_run_status"
  /\ UNCHANGED <<cfg, side, checkpoint_dir, checkpoint, disk, run_vars, result, hist>>

\* artifact_manager.update_run_status(...), the signal of the end of the run,
\* then return the ExecutionResult
UpdateRunStatus ==
  /\ pc = "update_run_status"
  /\ artifacts' = update_run_status(artifacts, execution_error)
  /\ sig' = end_signals(sig, execution_error, resumes)
  /\ result' = execution_result
  /\ pc' = "returned"
  /\ UNCHANGED <<cfg, not_sig, checkpoint_dir, checkpoint, disk, run_vars, hist>>

\* the process dies inside the level loop or between two artifact writes;
\* only the files survive
Crash ==
  /\ pc \in {"level", "tasks", "save_checkpoint", "save_trace", "save_outputs", "update_run_status"}
  /\ pc' = "crashed"
  /\ UNCHANGED <<cfg, side, artifacts, checkpoint_dir, checkpoint, disk, run_vars, result, hist>>

Next ==
  \/ StartRun
  \/ Resume
  \/ BeginLevel
  \/ \E n \in Nodes(project) : NodeTask(n)
  \/ \E n \in Nodes(project) : BranchStart(n)
  \/ \E n \in Nodes(project) : BranchIterate(n)
  \/ ProcessResult
  \/ Return
  \/ Crash

Spec == Init /\ [][Next]_vars

\* run() with artifact_dir given
ArtifactsInit ==
  /\ project \in Projects
  /\ inputs \in InputSet
  /\ fail \in FailSet
  /\ artifact_dir = TRUE
  /\ emit_signals = FALSE
  /\ checkpoint_dir \in BOOLEAN
  /\ RunInit
  /\ SideInit

ArtifactsNext ==
  \/ Next
  \/ SaveCheckpoint
  \/ SaveTrace
  \/ SaveOutputs
  \/ UpdateRunStatus

SpecArtifacts == ArtifactsInit /\ [][ArtifactsNext]_vars

\* what an earlier run of a workflow has left in the signals directory
LeftBy(w, types) ==
  [files |-> [f \in {signal_path(w, t) : t \in types} |->
                signal_dumps(Signal(CHOOSE t \in types : signal_path(w, t) = f, 0, -1, w, None, EmptyDict))],
   last |-> [k \in {<<w, t>> : t \in types} |-> Signal(k[2], 0, -1, w, None, EmptyDict)],
   calls |-> 0, overwritten |-> FALSE, cleared |-> FALSE]

\* run() with artifact_dir and emit_signals, after an earlier run of the workflow
LifecycleInit ==
  /\ project \in Projects
  /\ inputs = One("counter", 0)
  /\ fail \in FailSet
  /\ artifact_dir = TRUE
  /\ emit_signals = TRUE
  /\ checkpoint_dir \in BOOLEAN
  /\ RunInit
  /\ DagIdle
  /\ WaitIdle
  /\ CkptIdle
  /\ MgrIdle
  /\ CallIdle
  /\ \E types \in {{}, {"started", "failed"}, {"started", "completed", "ready"}} :
       sig = LeftBy(project.name, types)

SpecLifecycle == LifecycleInit /\ [][ArtifactsNext]_vars

\* ----------------------------------------------------------------- claims
LevelOf(n) == CHOOSE i \in 1..Len(levels) : n \in Range(levels[i])

Failed(n) == n \in DOMAIN results /\ results[n].kind = "err"

Replayed(n) == resumes > 0 /\ IsCompleted(loaded, n)

\* C1: when a node fails, every other node of its level still runs to
\* completion (it has a result when the failure is recorded) and no node of a
\* later level is ever started.
C1_FailFastLevelComplete ==
  pc \in {"level", "tasks", "returned", "crashed"} =>
    \A f \in Nodes(project) : Failed(f) =>
      /\ \A n \in started : LevelOf(n) <= LevelOf(f)
      /\ execution_error # NoError =>
           \A n \in Range(levels[LevelOf(f)]) : n \in DOMAIN results \/ Replayed(n)

C1_Witness ==
  /\ pc = "returned"
  /\ \E f, n \in Nodes(project) :
       /\ Failed(f) /\ n # f /\ LevelOf(n) = LevelOf(f) /\ LevelOf(f) < Len(levels)
       /\ n \in DOMAIN results /\ results[n].kind = "ok" /\ n \in DOMAIN node_outputs

\* C2: while tasks of level k run, every node of the levels before k has
\* finished and its output is in the NodeOutput map, every edge into a task's
\* node comes from an earlier level, and no node that executes in level k has
\* an output in the map (an input node has only its seed).
C2_LevelsSequential ==
  pc = "tasks" =>
    /\ \A m \in Nodes(project) : LevelOf(m) < lvl =>
         /\ m \in DOMAIN results \/ Replayed(m)
         /\ (m \in DOMAIN results /\ results[m].kind = "ok") =>
              (m \in DOMAIN node_outputs /\ node_outputs[m] = results[m].out)
         /\ Replayed(m) => (m \in DOMAIN node_outputs /\ node_outputs[m] = loaded.completed_nodes[m])
    /\ \A n \in Range(nodes_to_execute) :
         /\ LevelOf(n) = lvl
         /\ \A e \in EdgeSet(project) : e.to = n => LevelOf(e.from) < lvl
         /\ (\E t \in Range(nodes_to_execute) : t \notin DOMAIN results) =>
              (n \in DOMAIN node_outputs =>
                 (project.kind[n] = "input" /\ node_outputs[n] = (IF resumes > 0 THEN loaded.inputs ELSE inputs)))

C2_Witness ==
  /\ pc = "tasks" /\ lvl = 3
  /\ \E n \in Range(nodes_to_execute) :
       n \in DOMAIN results /\ DOMAIN results[n].input = {"counter", "text"}

\* C3: run() raises only in its setup phase (DAG cycle, no entrypoint, resume
\* target missing), before any node is started; a node failure of any kind
\* is captured: run() returns, result.error is the NodeExecutionError of a
\* failed node and result.success is false.
C3_NodeFailuresCaptured ==
  /\ pc = "raised" =>
       /\ started = {}
       /\ \/ build_dag_raises(project)
          \/ project.entrypoints = <<>>
          \/ resumes > 0 /\ ~disk.exists
  /\ pc = "returned" =>
       /\ ~result.raised
       /\ (\E f \in Nodes(project) : Failed(f)) =>
            /\ Failed(result.error.node)
            /\ result.error.msg = results[result.error.node].msg
            /\ ~success(result)

C3_Witness ==
  /\ pc = "returned"
  /\ result.error.msg \in {"sub_failed", "sub_raised"}
  /\ project.kind[result.error.node] = "branch"

\* C4: a node whose inbound edge conditions do not all hold on the sources'
\* outputs is skipped: no call is made for it, it gets no entry in the
\* NodeOutput map or the checkpoint, and it is not the run's error; a node
\* that is not skipped has every inbound condition true.
EdgeHolds(e) ==
  \/ e.cond.op = "none"
  \/ /\ e.from \in DOMAIN node_outputs
     /\ "counter" \in DOMAIN node_outputs[e.from]
     /\ node_outputs[e.from]["counter"] # None
     /\ e.cond.op = "lt" => node_outputs[e.from]["counter"] < e.cond.k
     /\ e.cond.op = "gt" => node_outputs[e.from]["counter"] > e.cond.k

Gated(n) == \E e \in EdgeSet(project) : e.to = n /\ ~EdgeHolds(e)

C4_EdgeGating ==
  pc \in {"level", "tasks", "returned"} =>
    \A n \in DOMAIN results :
      /\ results[n].kind # "skip" => ~Gated(n)
      /\ Gated(n) =>
           /\ results[n].kind = "skip"
           /\ calls[n] = 0
           /\ n \notin DOMAIN node_outputs
           /\ ~IsCompleted(checkpoint, n)
           /\ execution_error.node # n

C4_Witness ==
  /\ pc = "returned"
  /\ success(result)
  /\ \E n \in DOMAIN results : Gated(n) /\ results[n].kind = "skip"

Persisting == checkpoint.exists /\ checkpoint_dir

\* C5: a resumed run that returns has executed no node recorded in the
\* checkpoint it resumed from, and its final outputs are those of the
\* uninterrupted run of the same project on the same inputs.
C5_CrashResumeEquivalent ==
  (pc = "returned" /\ resumes > 0) =>
    /\ started \cap DOMAIN loaded.completed_nodes = {}
    /\ result.outputs = pure_run(project, inputs, fail).outputs

\* C6: a resume of a successful checkpointed run returns the outputs of that
\* run and makes no external call.
C6_ResumeOfSuccessfulRun ==
  (pc = "returned" /\ resumes > 0 /\ success(previous) /\ loaded.status = "completed") =>
    /\ success(result)
    /\ result.outputs = previous.outputs
    /\ \A n \in Nodes(project) : calls[n] = 0

C6_Witness ==
  /\ pc = "returned" /\ resumes > 0 /\ success(previous) /\ loaded.status = "completed"
  /\ \E n \in DOMAIN loaded.completed_nodes : project.kind[n] \in {"prompt", "tool", "branch"}
  /\ result.outputs.nested

\* the tasks of the current level whose result has not been processed yet
Unprocessed == {nodes_to_execute[i] : i \in (processed + 1)..Len(nodes_to_execute)}

\* C7 as claimed: at every point of a checkpointing run the persisted
\* completed_nodes are exactly the nodes that have finished successfully.
C7_CheckpointHasEveryFinishedNode ==
  (Persisting /\ pc \in {"level", "tasks", "crashed"}) =>
    DOMAIN disk.completed_nodes = finished

\* C7 as amended: the persisted completed_nodes are only nodes that finished
\* successfully, they include every such node whose result the level loop has
\* processed (a node that finished while its level is still running may be
\* missing), and a resume starts no node of the checkpoint it loaded.
C7_CheckpointAfterProcessedNode ==
  /\ (Persisting /\ pc \in {"level", "tasks", "crashed", "returned"}) =>
       /\ DOMAIN disk.completed_nodes \subseteq finished
       /\ finished \ Unprocessed \subseteq DOMAIN disk.completed_nodes
       /\ \A n \in DOMAIN disk.completed_nodes :
            n \in DOMAIN results => disk.completed_nodes[n] = results[n].out
  /\ resumes > 0 => started \cap DOMAIN loaded.completed_nodes = {}

C7_Witness ==
  /\ Persisting /\ pc = "crashed" /\ resumes = 0
  /\ \E n, m \in finished :
       /\ n \in Unprocessed /\ n \notin DOMAIN disk.completed_nodes
       /\ m \in DOMAIN disk.completed_nodes /\ LevelOf(m) = LevelOf(n)

IsIterOf(n, r, i) == i.node = n /\ i.run = r
ItersOf(n, r) == SelectSeq(iterations, LAMBDA i : IsIterOf(n, r, i))

Holds(w, out) ==
  /\ "counter" \in DOMAIN out
  /\ w.op = "lt" => out["counter"] < w.k
  /\ w.op = "gt" => out["counter"] > w.k

LoopNodes == {n \in Nodes(project) : project.kind[n] = "branch" /\ project.branches[n].loop_while.op # "none"}

\* C8: in a fresh run a looping branch runs iterations 0, 1, ... and at most
\* max_iterations of them, at least one once it entered its loop; it fails
\* with 'Max iterations' exactly when loop_while is still true after
\* iteration number max_iterations.
C8_LoopBounded ==
  resumes = 0 =>
    \A n \in LoopNodes :
      LET I == ItersOf(n, 0)
          M == project.branches[n].max_iterations
          W == project.branches[n].loop_while
      IN /\ Len(I) <= M
         /\ \A i \in 1..Len(I) : I[i].it = i - 1
         /\ (n \in DOMAIN results /\ results[n].called) => Len(I) >= 1
         /\ (Len(I) = M /\ I[M].ok /\ Holds(W, I[M].out)) => (Failed(n) /\ results[n].msg = "max_iter")
         /\ (n \in DOMAIN results /\ results[n].msg = "max_iter") =>
              (Len(I) = M /\ I[M].ok /\ Holds(W, I[M].out))

C8_Witness ==
  /\ resumes = 0 /\ pc = "returned"
  /\ \E n \in LoopNodes :
       /\ project.branches[n].max_iterations >= 2
       /\ Len(ItersOf(n, 0)) = project.branches[n].max_iterations
       /\ result.error = [node |-> n, msg |-> "max_iter"]

\* C9: a branch node that ran its sub-workflow and succeeded stopped after
\* the first iteration whose outputs make loop_while false (exactly one
\* iteration without loop_while), and its output is the flattened output of
\* its last iteration.
C9_LoopStopsAtFalse ==
  pc \in {"level", "tasks", "returned"} =>
    \A n \in Nodes(project) :
      (project.kind[n] = "branch" /\ n \in DOMAIN results /\ results[n].kind = "ok" /\ ~results[n].tskip) =>
        LET I == ItersOf(n, resumes)
            W == project.branches[n].loop_while
            last == I[Len(I)]
        IN /\ Len(I) >= 1
           /\ W.op = "none" => Len(I) = 1
           /\ W.op # "none" => (~Holds(W, last.out) /\ \A i \in 1..(Len(I) - 1) : Holds(W, I[i].out))
           /\ \A i \in 1..Len(I) : I[i].ok
           /\ last.out = One("counter", last.input["counter"] + 1)
           /\ results[n].out = last.out
           /\ (n \in DOMAIN node_outputs) => node_outputs[n] = last.out

C9_Witness ==
  /\ pc = "returned" /\ success(result)
  /\ \E n \in LoopNodes :
       /\ n \in DOMAIN results /\ Len(ItersOf(n, resumes)) >= 2
       /\ result.outputs.nested
       /\ \E o \in DOMAIN result.outputs.byNode : result.outputs.byNode[o] = results[n].out

IsOkIterOf(n, i) == i.node = n /\ i.ok
OkItersOf(n) == SelectSeq(iterations, LAMBDA i : IsOkIterOf(n, i))

\* C10: the index stored in checkpoint.branch_states for a branch is the
\* index of the last completed iteration of that branch, the iterations run
\* for a branch have increasing indices, and a resumed branch starts right
\* after the stored index.
C10_BranchStateIsLastCompleted ==
  checkpoint.exists =>
    \A n \in DOMAIN checkpoint.branch_states :
      LET done == OkItersOf(n)
      IN /\ done # <<>>
         /\ checkpoint.branch_states[n] = done[Len(done)].it

\* ---------------------------------------------- build_dag on every graph
DagN == 4            \* nodes of the graphs given to build_dag
MaxEdges == 4        \* edges of the graphs given to build_dag

\* a project of DagN tool nodes, edges added one by one (project.edges[id] = Edge(...))
GraphProject(edges) ==
  [name |-> "graph", kind |-> [n \in 1..DagN |-> "tool"], edges |-> edges,
   entrypoints |-> <<1>>, branches |-> [n \in {} |-> NoBranch]]

EdgeBefore(e, f, t) == e.from < f \/ (e.from = f /\ e.to < t)

DagInit ==
  /\ RunIdle
  /\ SigIdle
  /\ WaitIdle
  /\ CkptIdle
  /\ MgrIdle
  /\ CallIdle
  /\ dag = [project |-> GraphProject(<<>>), built |-> FALSE, result |-> build_dag(GraphProject(<<>>))]

\* one more edge, self-loops included; the edge ids are in ascending order
AddEdge(f, t) ==
  /\ ~dag.built
  /\ Len(dag.project.edges) < MaxEdges
  /\ dag.project.edges # <<>> => EdgeBefore(dag.project.edges[Len(dag.project.edges)], f, t)
  /\ dag' = [dag EXCEPT !.project = GraphProject(Append(dag.project.edges, MkEdge(f, t, NoCond, CC)))]
  /\ UNCHANGED <<main_vars, not_dag>>

BuildDag ==
  /\ ~dag.built
  /\ dag' = [dag EXCEPT !.built = TRUE, !.result = build_dag(dag.project)]
  /\ UNCHANGED <<main_vars, not_dag>>

DagNext ==
  \/ \E f, t \in 1..DagN : AddEdge(f, t)
  \/ BuildDag

SpecDag == DagInit /\ [][DagNext]_vars

Succ(p, S) == {e.to : e \in {x \in EdgeSet(p) : x.from \in S}}

\* the nodes reached from S by a path of 1..k edges
RECURSIVE Reach(_, _, _)
Reach(p, S, k) == IF k = 0 THEN {} ELSE Succ(p, S) \cup Reach(p, Succ(p, S), k - 1)

OnCycle(p, n) == n \in Reach(p, {n}, Len(p.kind))

LevelIn(r, n) == CHOOSE i \in 1..Len(r.execution_levels) : n \in Range(r.execution_levels[i])

Preds(p, n) == {e.from : e \in {x \in EdgeSet(p) : x.to = n}}

Max(S) == CHOOSE x \in S : \A y \in S : y <= x

\* C12: in a DAG returned by build_dag every edge goes from an earlier to a
\* later level, every node is in the earliest level possible (the first one
\* without inbound edge, else right after its last predecessor), and each
\* level lists its ids in ascending order.
C12_LevelsEarliestAndSorted ==
  (dag.built /\ dag.result.error = "none") =>
    LET p == dag.project
        r == dag.result
    IN /\ \A e \in EdgeSet(p) : LevelIn(r, e.from) < LevelIn(r, e.to)
       /\ \A n \in Nodes(p) :
            LevelIn(r, n) = IF Preds(p, n) = {} THEN 1
                            ELSE 1 + Max({LevelIn(r, m) : m \in Preds(p, n)})
       /\ \A i \in 1..Len(r.execution_levels) :
            \A j, k \in 1..Len(r.execution_levels[i]) :
              j < k => r.execution_levels[i][j] < r.execution_levels[i][k]

C12_Witness ==
  /\ dag.built /\ dag.result.error = "none"
  /\ Len(dag.result.execution_levels) = 3
  /\ \E i \in 1..3 : Len(dag.result.execution_levels[i]) = 2
  /\ \E n \in Nodes(dag.project) :
       \E a, b \in Preds(dag.project, n) : LevelIn(dag.result, a) < LevelIn(dag.result, b)

\* ------------------------------------------------- claims on run(), continued
\* the output nodes that produced an output in this run or were replayed
OutputNodesDone ==
  {n \in output_nodes(project) : Replayed(n) \/ (n \in DOMAIN results /\ results[n].kind = "ok")}

OutputOf(n) ==
  IF Replayed(n) THEN loaded.completed_nodes[n] ELSE _gather_inputs(project, n, node_outputs)

TracedIds(nodes) == {nodes[i].id : i \in {j \in 1..Len(nodes) : ~nodes[j].error}}

\* trace.json and outputs.json exist and agree with the completed-nodes map
\* of the checkpoint: every completed node has a trace entry without
\* error and the outputs are the final outputs of these nodes' outputs
ConsistentWith(cp) ==
  /\ artifacts.trace.exists
  /\ artifacts.outputs.exists
  /\ DOMAIN cp.completed_nodes \subseteq TracedIds(artifacts.trace.nodes)
  /\ artifacts.outputs.outputs = final_outputs(project, execution_order(project), cp.completed_nodes)

CompletedCheckpoint == artifacts.checkpoint.exists /\ artifacts.checkpoint.status = "completed"

\* C14: at every instant, a crash between two artifact writes included, if the
\* persisted checkpoint of the run has status completed then outputs.json and
\* trace.json exist and are consistent with its completed-nodes map
C14_ArtifactInvariant == CompletedCheckpoint => ConsistentWith(artifacts.checkpoint)

\* the same once run() has returned
C14_ArtifactsAfterReturn ==
  (pc = "returned" /\ CompletedCheckpoint) => ConsistentWith(artifacts.checkpoint)

C14_ReturnedCompleted == pc = "returned" /\ CompletedCheckpoint /\ resumes = 1

\* ------------------------------------------- emit_signal and clear_signals
SignalsInit ==
  /\ RunIdle
  /\ DagIdle
  /\ WaitIdle
  /\ CkptIdle
  /\ MgrIdle
  /\ CallIdle
  /\ sig = NoSignals

\* a call of emit_signal; sig.last keeps the signal a call emitted
EmitSignal(enabled, t, w, args) ==
  /\ sig.calls < MaxSignalCalls
  /\ sig' = [after_emit(sig, enabled, t, w, args, sig.calls) EXCEPT !.calls = sig.calls + 1]
  /\ UNCHANGED <<main_vars, not_sig>>

\* a call of clear_signals
ClearSignals(w) ==
  /\ sig.calls < MaxSignalCalls
  /\ sig' = [after_clear(sig, w) EXCEPT !.calls = sig.calls + 1]
  /\ UNCHANGED <<main_vars, not_sig>>

SignalsNext ==
  \/ \E enabled \in BOOLEAN, t \in Range(SignalTypes), w \in Workflows, args \in SignalArgs :
       EmitSignal(enabled, t, w, args)
  \/ \E w \in Workflows : ClearSignals(w)

SpecSignals == SignalsInit /\ [][SignalsNext]_vars

\* C15: after any sequence of emit_signal and clear_signals calls, the file of
\* (w, t) is absent if no emit of (w, t) followed the last clear of w, and
\* otherwise loads as the Signal of the most recent emit of (w, t), with type t
\* and workflow w; there is one file per (w, t) and no other file
C15_OneSignalPerWorkflowAndType ==
  /\ \A w \in Workflows, t \in Range(SignalTypes) :
       IF <<w, t>> \in DOMAIN sig.last
       THEN /\ signal_path(w, t) \in DOMAIN sig.files
            /\ signal_load(sig.files[signal_path(w, t)]) = sig.last[<<w, t>>]
            /\ signal_load(sig.files[signal_path(w, t)]).signal_type = t
            /\ signal_load(sig.files[signal_path(w, t)]).workflow = w
       ELSE signal_path(w, t) \notin DOMAIN sig.files
  /\ Cardinality(DOMAIN sig.files) = Cardinality(DOMAIN sig.last)

\* a signal was overwritten, another was cleared, and a signal of the
\* workflow "build.started" outlives a clear of "build"
C15_Witness ==
  /\ sig.overwritten
  /\ sig.cleared
  /\ signal_path("build.started", "completed") \in DOMAIN sig.files
  /\ signal_path("build", "started") \notin DOMAIN sig.files

\* ------------------------------------------------- the signals of a run
\* the signal types of the workflow w with a file in the signals directory
Visible(w) == {t \in Range(SignalTypes) : signal_path(w, t) \in DOMAIN sig.files}

SignalOf(w, t) == signal_load(sig.files[signal_path(w, t)])

InRun == pc \in {"level", "tasks", "save_checkpoint", "save_trace", "save_outputs", "update_run_status"}

\* C16: a run with signal emission clears the signals of its workflow at its
\* start and emits started; when it has ended, exactly one of completed (on
\* success, with the outputs file) and failed (on failure) is there, emitted
\* by this run, and no signal of an earlier run is visible
C16_SignalLifecycle ==
  /\ InRun => /\ Visible(project.name) = {"started"}
              /\ SignalOf(project.name, "started").timestamp = resumes
  /\ pc = "returned" =>
       /\ Visible(project.name) = {"started", IF result.error = NoError THEN "completed" ELSE "failed"}
       /\ \A t \in Visible(project.name) : SignalOf(project.name, t).timestamp = resumes
       /\ result.error = NoError => SignalOf(project.name, "completed").outputs_path = OutputsPath

\* a run has ended with success where an earlier run had left its signals
C16_Witness ==
  /\ pc = "returned"
  /\ sig.cleared
  /\ result.error = NoError
  /\ "completed" \in Visible(project.name)

\* a resumed run has ended with a failure
C16_WitnessFailed ==
  /\ pc = "returned"
  /\ resumes = 1
  /\ "failed" \in Visible(project.name)

\* ------------------------------------------------------ wait_for_signals
MaxTimeout == 2
MaxPoll == 2

\* calls of the other runs while the wait is under way
MaxOtherCalls == 3

\* the clock is not read beyond this time
MaxClock == MaxTimeout + 2 * MaxPoll

SignalKeys == {"signal_type", "run_id", "timestamp", "workflow", "outputs_path", "metadata"}

\* Signal.load(path) raises nothing: the text is the JSON object of a Signal
parses(data) == DOMAIN data = SignalKeys

AwaitedA == signal_path("build", "completed")
AwaitedB == signal_path("build.started", "completed")

\* WaitConfig.signals: nothing, one signal, two signals, one signal twice
AwaitedSignals == {<<>>, <<AwaitedA>>, <<AwaitedA, AwaitedB>>, <<AwaitedA, AwaitedA>>}

\* WaitConfig and the state at the call of wait_for_signals
WaitConfig(signals, timeout_seconds, poll_interval) ==
  [NoWait EXCEPT !.signals = signals, !.timeout_seconds = timeout_seconds,
                 !.poll_interval = poll_interval, !.pc = "call"]

WaitInit ==
  /\ RunIdle
  /\ DagIdle
  /\ SigIdle
  /\ CkptIdle
  /\ MgrIdle
  /\ CallIdle
  /\ \E signals \in AwaitedSignals, t \in 0..MaxTimeout, p \in 1..MaxPoll :
       wait = WaitConfig(signals, t, p)

IsMissing(loaded_signals, path) == path \notin DOMAIN loaded_signals

\* the signals SignalTimeoutError names
missing_signals(signals, loaded_signals) == SelectSeq(signals, LAMBDA path : IsMissing(loaded_signals, path))

timed_out_never(elapsed, timeout_seconds) == FALSE

timed_out(elapsed, timeout_seconds) == elapsed > timeout_seconds

\* the body of the for loop for one path: load the file if it exists and
\* is not in loaded_signals yet; a file that does not parse is passed over
poll(files, loaded_signals, path) ==
  IF path \in DOMAIN loaded_signals THEN loaded_signals
  ELSE IF path \in DOMAIN files
       THEN IF parses(files[path]) THEN Put(loaded_signals, path, signal_load(files[path])) ELSE loaded_signals
       ELSE loaded_signals

\* every awaited file exists and parses
AllPresent(files, signals) ==
  \A k \in 1..Len(signals) : signals[k] \in DOMAIN files /\ parses(files[signals[k]])

\* if not config.signals: return {}; start = time.monotonic()
WaitCall ==
  /\ wait.pc = "call"
  /\ wait' = IF wait.signals = <<>>
             THEN [wait EXCEPT !.pc = "returned", !.present = TRUE]
             ELSE [wait EXCEPT !.pc = "top", !.start = wait.clock]
  /\ UNCHANGED <<main_vars, not_wait>>

\* top of the while loop: read the clock, raise SignalTimeoutError if the
\* timeout has elapsed
CheckTimeout ==
  /\ wait.pc = "top"
  /\ wait' = IF timed_out(wait.clock - wait.start, wait.timeout_seconds)
             THEN [wait EXCEPT !.elapsed = wait.clock - wait.start, !.pc = "raised",
                               !.missing = missing_signals(wait.signals, wait.results)]
             ELSE [wait EXCEPT !.elapsed = wait.clock - wait.start, !.pc = "poll", !.i = 1]
  /\ UNCHANGED <<main_vars, not_wait>>

\* one round of the for loop over config.signals
PollSignal ==
  /\ wait.pc = "poll"
  /\ wait.i <= Len(wait.signals)
  /\ wait' = [wait EXCEPT !.results = poll(sig.files, wait.results, wait.signals[wait.i]),
                          !.i = wait.i + 1]
  /\ UNCHANGED <<main_vars, not_wait>>

\* after the for loop: return the results if there is one per awaited signal
Decide ==
  /\ wait.pc = "poll"
  /\ wait.i > Len(wait.signals)
  /\ wait' = IF Cardinality(DOMAIN wait.results) = Len(wait.signals)
             THEN [wait EXCEPT !.pc = "returned", !.present = AllPresent(sig.files, wait.signals)]
             ELSE [wait EXCEPT !.pc = "sleep"]
  /\ UNCHANGED <<main_vars, not_wait>>

\* time.sleep(config.poll_interval)
Sleep ==
  /\ wait.pc = "sleep"
  /\ wait' = [wait EXCEPT !.pc = "top", !.clock = Min({wait.clock + wait.poll_interval, MaxClock})]
  /\ UNCHANGED <<main_vars, not_wait>>

\* another run is inside Signal.save: write_text has opened the file, the
\* text is not written yet
OpenForWrite(w, t) ==
  /\ sig.calls < MaxSignalCalls
  /\ sig' = [sig EXCEPT !.files = Put(sig.files, signal_path(w, t), EmptyDict), !.calls = sig.calls + 1]
  /\ UNCHANGED <<main_vars, not_sig>>

WaitStep ==
  \/ WaitCall
  \/ CheckTimeout
  \/ PollSignal
  \/ Decide
  \/ Sleep

\* the other runs emit completed and clear their signals
OtherRuns ==
  /\ sig.calls < MaxOtherCalls
  /\ \/ \E w \in Workflows : EmitSignal(TRUE, "completed", w, RunSignalArgs(OutputsPath))
     \/ \E w \in Workflows : ClearSignals(w)
     \/ \E w \in Workflows : OpenForWrite(w, "completed")

WaitNext ==
  \/ WaitStep
  \/ OtherRuns

SpecWait == WaitInit /\ [][WaitNext]_vars

\* the waiting process is scheduled and its sleep ends
SpecWaitFair == SpecWait /\ WF_vars(WaitStep)

\* C17: wait_for_signals returns successfully only when every awaited signal
\* file exists and parses as a Signal at the moment it returns
C17_AllPresentAtReturn == wait.pc = "returned" => wait.present

\* wait_for_signals returns only with a Signal loaded for every awaited path
C17_AllLoadedAtReturn ==
  wait.pc = "returned" => \A k \in 1..Len(wait.signals) : wait.signals[k] \in DOMAIN wait.results

\* it has returned although a signal it loaded in an earlier round of the
\* while loop was cleared before the last round began
C17_StaleReturn ==
  /\ wait.pc = "returned"
  /\ wait.signals = <<AwaitedA, AwaitedB>>
  /\ AwaitedA \notin DOMAIN sig.files
  /\ wait.results[AwaitedB].timestamp > 1
  /\ wait.clock > wait.start

Done == wait.pc \in {"returned", "raised"}

\* C18: wait_for_signals always terminates: it returns, or it raises
\* SignalTimeoutError once timeout_seconds have elapsed, and the error names
\* exactly the awaited signals that were not found
C18_WaitTerminates ==
  /\ <>Done
  /\ [](wait.pc = "raised" =>
          /\ wait.elapsed > wait.timeout_seconds
          /\ Range(wait.missing) = {path \in Range(wait.signals) : path \notin DOMAIN wait.results})

\* the wait has timed out with one of two signals found
C18_Witness ==
  /\ wait.pc = "raised"
  /\ wait.missing = <<AwaitedB>>
  /\ AwaitedA \in DOMAIN wait.results

\* ------------------------------------------------- Checkpoint save and load
MaxTurns == 1
MaxCheckpointCalls == 3

\* a Python value of an inputs or outputs dict, by its type
PyValue(type, v) == [type |-> type, v |-> v]

\* an int, a str, a list, a tuple, and an object json cannot serialize
PyValues == {PyValue("int", 1), PyValue("str", 1), PyValue("list", 1), PyValue("tuple", 1), PyValue("object", 1)}

\* json.loads(json.dumps(x, default=str)): a tuple is written as an array and
\* read as a list, default=str writes str(x) for what json cannot serialize
json_value(x) ==
  CASE x.type = "tuple" -> PyValue("list", x.v)
    [] x.type = "object" -> PyValue("str", x.v)
    [] OTHER -> x

json_dict(d) == [k \in DOMAIN d |-> json_value(d[k])]

\* the CheckpointNodeData dataclass
CheckpointNodeData(outputs, completed_at, session_id, cost_usd, num_turns) ==
  [outputs |-> outputs, completed_at |-> completed_at, session_id |-> session_id,
   cost_usd |-> cost_usd, num_turns |-> num_turns]

\* asdict(v), written and read back
node_data_json(v) ==
  [outputs |-> json_dict(v.outputs), completed_at |-> v.completed_at, session_id |-> v.session_id,
   cost_usd |-> v.cost_usd, num_turns |-> v.num_turns]

\* the Checkpoint dataclass, with every field
CheckpointObject(status, completed_nodes, pending_nodes, total_cost_usd, cp_inputs, entrypoint, branch_states) ==
  [run_id |-> "run-1", project_name |-> "loop", started_at |-> 0, updated_at |-> 1, status |-> status,
   completed_nodes |-> completed_nodes, pending_nodes |-> pending_nodes,
   total_cost_usd |-> total_cost_usd, inputs |-> cp_inputs, entrypoint |-> entrypoint,
   branch_states |-> branch_states]

\* the text both save functions write, as json.loads reads it
checkpoint_json(c) ==
  [k \in {"run_id", "project_name", "started_at", "updated_at", "status", "completed_nodes",
          "pending_nodes", "total_cost_usd", "inputs", "entrypoint", "branch_states"} |->
     CASE k = "completed_nodes" -> [n \in DOMAIN c.completed_nodes |-> node_data_json(c.completed_nodes[n])]
       [] k = "inputs" -> json_dict(c.inputs)
       [] OTHER -> c[k]]

\* Checkpoint.save: <checkpoint_dir>/<run_id>.json
Checkpoint_save(c) == checkpoint_json(c)

\* CheckpointNodeData(**v) for every completed node
node_data_load(nodes) ==
  [n \in DOMAIN nodes |->
     CheckpointNodeData(nodes[n].outputs, nodes[n].completed_at, nodes[n].session_id,
                        nodes[n].cost_usd, nodes[n].num_turns)]

\* data.get(key, default)
data_get(data, key, default) == IF key \in DOMAIN data THEN data[key] ELSE default

\* Checkpoint.load
Checkpoint_load(data) ==
  [run_id |-> data["run_id"], project_name |-> data["project_name"],
   started_at |-> data["started_at"], updated_at |-> data["updated_at"], status |-> data["status"],
   completed_nodes |-> node_data_load(data_get(data, "completed_nodes", EmptyDict)),
   pending_nodes |-> data_get(data, "pending_nodes", <<>>),
   total_cost_usd |-> data_get(data, "total_cost_usd", 0),
   inputs |-> data_get(data, "inputs", EmptyDict),
   entrypoint |-> data_get(data, "entrypoint", None),
   branch_states |-> data_get(data, "branch_states", EmptyDict)]

\* ArtifactManager.save_checkpoint of a manager with config.persist_checkpoint
\* = persist: the new content of checkpoint.json
checkpoint_file(persist, file, c) == IF persist THEN checkpoint_json(c) ELSE file

\* Python None, among the checkpoints
NoneCheckpoint == One("None", None)

load_checkpoint_without_branch_states(file) ==
  IF file = EmptyDict THEN NoneCheckpoint
  ELSE [Checkpoint_load(file) EXCEPT !.branch_states = EmptyDict]

\* ArtifactManager.load_checkpoint: None when checkpoint.json is missing
load_checkpoint(file) ==
  IF file = EmptyDict THEN NoneCheckpoint
  ELSE [Checkpoint_load([k \in DOMAIN file \ {"branch_states"} |-> file[k]]) EXCEPT
          !.branch_states = IF "branch_states" \in DOMAIN file THEN file["branch_states"] ELSE EmptyDict]

\* the completed-nodes maps of the checkpoints drawn
NodeMaps ==
  {EmptyDict} \cup
  {One("a", CheckpointNodeData(One("result", v), 1, session_id, cost_usd, num_turns)) :
     v \in PyValues, session_id \in {None, 5}, cost_usd \in {None, 2}, num_turns \in 0..MaxTurns}

Checkpoints ==
  {CheckpointObject(status, completed_nodes, pending_nodes, 2, cp_inputs, entrypoint, branch_states) :
     status \in {"running", "completed", "failed"},
     completed_nodes \in NodeMaps,
     pending_nodes \in {<<>>, <<"b">>},
     cp_inputs \in {EmptyDict, One("counter", PyValue("int", 1))},
     entrypoint \in {None, 1},
     branch_states \in {EmptyDict, One("loop", 1)}}

CheckpointInit ==
  /\ RunIdle
  /\ DagIdle
  /\ SigIdle
  /\ WaitIdle
  /\ MgrIdle
  /\ CallIdle
  /\ \E c \in Checkpoints : ckpt = [NoCkpt EXCEPT !.c = c]

\* c.save(checkpoint_dir)
SaveFile ==
  /\ ckpt.calls < MaxCheckpointCalls
  /\ ckpt' = [ckpt EXCEPT !.file = Checkpoint_save(ckpt.c), !.calls = ckpt.calls + 1]
  /\ UNCHANGED <<main_vars, not_ckpt>>

\* Checkpoint.load(path) of the file saved
LoadFile ==
  /\ ckpt.calls < MaxCheckpointCalls
  /\ ckpt.file # EmptyDict
  /\ ckpt' = [ckpt EXCEPT !.loaded = [from |-> "file", missing |-> FALSE,
                                      checkpoint |-> Checkpoint_load(ckpt.file)],
                          !.calls = ckpt.calls + 1]
  /\ UNCHANGED <<main_vars, not_ckpt>>

\* artifact_manager.save_checkpoint(c)
SaveArtifact(persist) ==
  /\ ckpt.calls < MaxCheckpointCalls
  /\ ckpt' = [ckpt EXCEPT !.artifact = checkpoint_file(persist, ckpt.artifact, ckpt.c),
                          !.calls = ckpt.calls + 1]
  /\ UNCHANGED <<main_vars, not_ckpt>>

\* artifact_manager.load_checkpoint()
LoadArtifact ==
  /\ ckpt.calls < MaxCheckpointCalls
  /\ ckpt' = [ckpt EXCEPT !.loaded = [from |-> "artifact", missing |-> ckpt.artifact = EmptyDict,
                                      checkpoint |-> load_checkpoint(ckpt.artifact)],
                          !.calls = ckpt.calls + 1]
  /\ UNCHANGED <<main_vars, not_ckpt>>

CheckpointNext ==
  \/ SaveFile
  \/ LoadFile
  \/ \E persist \in BOOLEAN : SaveArtifact(persist)
  \/ LoadArtifact

SpecCheckpoint == CheckpointInit /\ [][CheckpointNext]_vars

HasLoaded == ckpt.loaded # EmptyDict

\* checkpoint.json was missing when load_checkpoint was called
FileMissing == ckpt.loaded.from = "artifact" /\ ckpt.loaded.missing

\* C19: loading what was saved yields a checkpoint equal in every field to
\* the one saved, and load_checkpoint returns None when the file is missing
C19_RoundTrip ==
  HasLoaded =>
    IF FileMissing THEN ckpt.loaded.checkpoint = NoneCheckpoint
    ELSE ckpt.loaded.checkpoint = ckpt.c

\* every value of the inputs and of the outputs is a JSON value
JsonValued(d) == \A k \in DOMAIN d : d[k].type \in {"int", "str", "list"}

JsonOnly(c) ==
  /\ JsonValued(c.inputs)
  /\ \A n \in DOMAIN c.completed_nodes : JsonValued(c.completed_nodes[n].outputs)

\* the fields json leaves as they are
SameButValues(a, b) ==
  /\ \A k \in (DOMAIN b) \ {"completed_nodes", "inputs"} : a[k] = b[k]
  /\ DOMAIN a.inputs = DOMAIN b.inputs
  /\ DOMAIN a.completed_nodes = DOMAIN b.completed_nodes
  /\ \A n \in DOMAIN b.completed_nodes :
       /\ \A k \in {"completed_at", "session_id", "cost_usd", "num_turns"} :
            a.completed_nodes[n][k] = b.completed_nodes[n][k]
       /\ DOMAIN a.completed_nodes[n].outputs = DOMAIN b.completed_nodes[n].outputs

\* C19, amended: the checkpoint loaded equals the one saved in every field when
\* the inputs and outputs hold JSON values only; otherwise it equals it in
\* every field but in these values, where a tuple comes back as a list and a
\* value json cannot serialize as its str(); load_checkpoint returns None
\* when the file is missing
C19_RoundTripOfJsonValues ==
  HasLoaded =>
    IF FileMissing THEN ckpt.loaded.checkpoint = NoneCheckpoint
    ELSE /\ SameButValues(ckpt.loaded.checkpoint, ckpt.c)
         /\ JsonOnly(ckpt.c) => ckpt.loaded.checkpoint = ckpt.c
         /\ \A n \in DOMAIN ckpt.c.completed_nodes : \A k \in DOMAIN ckpt.c.completed_nodes[n].outputs :
              ckpt.loaded.checkpoint.completed_nodes[n].outputs[k].type
                = (CASE ckpt.c.completed_nodes[n].outputs[k].type = "tuple" -> "list"
                     [] ckpt.c.completed_nodes[n].outputs[k].type = "object" -> "str"
                     [] OTHER -> ckpt.c.completed_nodes[n].outputs[k].type)

\* a checkpoint of JSON values, with a completed node, an entrypoint and a
\* branch state, came back from the artifact manager
C19_Witness ==
  /\ HasLoaded
  /\ ckpt.loaded.from = "artifact"
  /\ ~ckpt.loaded.missing
  /\ JsonOnly(ckpt.c)
  /\ ckpt.c.completed_nodes # EmptyDict
  /\ ckpt.c.branch_states # EmptyDict
  /\ ckpt.c.entrypoint # None
  /\ ckpt.loaded.checkpoint = ckpt.c

\* ------------------------------------------------------------- start_from
StartFromNext ==
  \/ Next
  \/ ResumeFrom

SpecStartFrom == Init /\ [][StartFromNext]_vars

\* the nodes with a path of one or more edges to x
Upstream(p, x) == {n \in Nodes(p) : x \in Reach(p, {n}, Len(p.kind))}

\* the current run() call was given start_from and found its checkpoint file
StartedFrom == resumes > 0 /\ start_from # None /\ disk.exists

HasReplayEntry(n) == \E i \in 1..Len(trace) : trace[i].id = n /\ trace[i].replayed

\* C20: in a run resumed with start_from = X, every ancestor of X is reused
\* from the resumed checkpoint without being executed, every other node is
\* executed normally, even when the checkpoint holds it, and when some
\* ancestor of X is not in the checkpoint the run raises a setup error before
\* any node executes
C20_StartFrom ==
  StartedFrom =>
    LET ancestors == Upstream(project, start_from)
    IN IF ancestors \subseteq DOMAIN loaded.completed_nodes
       THEN /\ pc # "raised"
            /\ \A n \in ancestors :
                 /\ n \notin started
                 /\ calls[n] = 0
                 /\ n \in DOMAIN node_outputs /\ node_outputs[n] = loaded.completed_nodes[n]
            /\ \A n \in Nodes(project) \ ancestors :
                 /\ ~HasReplayEntry(n)
                 /\ n \in finished => n \in started
                 /\ (pc = "returned" /\ success(result)) =>
                      (n \in started \/ \E i \in 1..Len(trace) : trace[i].id = n /\ trace[i].skipped)
       ELSE /\ pc = "raised"
            /\ started = {}
            /\ trace = <<>>
            /\ \A n \in Nodes(project) : calls[n] = 0

\* a run resumed from the output node of a completed run went through: its
\* three ancestors were replayed, the output node itself, completed in the
\* checkpoint, was executed again
C20_Witness ==
  /\ StartedFrom
  /\ pc = "returned"
  /\ Cardinality(Upstream(project, start_from)) = 3
  /\ start_from \in DOMAIN loaded.completed_nodes
  /\ start_from \in started
  /\ \A n \in Upstream(project, start_from) : HasReplayEntry(n)

\* a run resumed with start_from after a crash raised: an ancestor had not
\* completed
C20_WitnessSetupError ==
  /\ StartedFrom
  /\ pc = "raised"
  /\ Upstream(project, start_from) \ DOMAIN loaded.completed_nodes # {}

\* ------------------------------------------------------------ setup errors
\* input -> tool -> output, with an edge to a node that is not declared
DanglingProject ==
  [name |-> "dangling", kind |-> <<"input", "tool", "output">>,
   edges |-> <<MkEdge(1, 2, NoCond, CC), MkEdge(2, 3, NoCond, CC), MkEdge(2, 4, NoCond, CC)>>,
   entrypoints |-> <<1>>, branches |-> [n \in {} |-> NoBranch]]

\* run() with artifact_dir and emit_signals, of projects that cannot be set up too
SetupInit ==
  /\ project \in Projects \cup {DanglingProject}
  /\ inputs = One("counter", 0)
  /\ fail \in FailSet
  /\ artifact_dir = TRUE
  /\ emit_signals = TRUE
  /\ checkpoint_dir \in BOOLEAN
  /\ RunInit
  /\ DagIdle
  /\ WaitIdle
  /\ CkptIdle
  /\ MgrIdle
  /\ CallIdle
  /\ \E types \in {{}, {"started", "failed"}} : sig = LeftBy(project.name, types)

SpecSetup == SetupInit /\ [][ArtifactsNext]_vars

\* the project has a directed cycle, an edge with an undeclared endpoint, or
\* no entrypoint
CannotSetUp(p) ==
  \/ \E n \in Nodes(p) : OnCycle(p, n)
  \/ \E e \in EdgeSet(p) : e.from \notin Nodes(p) \/ e.to \notin Nodes(p)
  \/ p.entrypoints = <<>>

\* no node was executed, no run registered, no file written
NothingDone ==
  /\ started = {}
  /\ finished = {}
  /\ iterations = <<>>
  /\ trace = <<>>
  /\ \A n \in DOMAIN calls : calls[n] = 0
  /\ artifacts = NoArtifacts
  /\ ~disk.exists
  /\ ~sig.cleared
  /\ sig = LeftBy(project.name, {"started", "failed"} \cap {k[2] : k \in DOMAIN sig.last})

\* the run() call that raised changed no file and executed nothing
RaiseStep ==
  pc' = "raised" =>
    /\ disk' = disk
    /\ artifacts' = artifacts
    /\ sig' = sig
    /\ started' = {}
    /\ trace' = <<>>
    /\ finished' = finished
    /\ iterations' = iterations
    /\ \A n \in DOMAIN calls' : calls'[n] = 0

\* C21: when run() raises for a DAG cycle, an unknown edge endpoint, a missing
\* entrypoint or a missing resume checkpoint, it has executed no node,
\* registered no run and written no checkpoint, trace, outputs or signal
\* file: a project that cannot be set up is never executed, a resume without
\* its checkpoint file is raised, and the raising call changes nothing
C21_SetupErrorsAbort ==
  /\ [](CannotSetUp(project) => (pc \in {"init", "raised"} /\ NothingDone))
  /\ []((resumes > 0 /\ ~disk.exists) => pc = "raised")
  /\ [][RaiseStep]_vars

\* a resume raised for its missing checkpoint, after a run that had registered
\* itself and emitted signals
C21_Witness ==
  /\ pc = "raised"
  /\ resumes > 0
  /\ ~disk.exists
  /\ artifacts.status # "none"
  /\ \E k \in DOMAIN sig.last : sig.last[k].timestamp >= 0

\* run() raised for each kind of project that cannot be set up
C21_WitnessCycle ==
  pc = "raised" /\ resumes = 0 /\ \E n \in Nodes(project) : OnCycle(project, n)

C21_WitnessEndpoint ==
  pc = "raised" /\ resumes = 0 /\ unknown_endpoint(project)

\* ------------------------------------------------------------ run manifest
MaxManifestCalls == 4

\* three ArtifactManager objects of one base directory; the first two are
\* managers of the same run
Managers == 1..3
run_id_of(m) == IF m = 3 THEN "run-2" ELSE "run-1"

RunEntry(run_id, status, started_at, ended_at, run_success) ==
  [run_id |-> run_id, status |-> status, started_at |-> started_at, ended_at |-> ended_at,
   success |-> run_success]

add_run_append(runs, entry) == Append(runs, entry)

\* RunManifest.add_run
add_run(runs, entry) ==
  IF \E i \in 1..Len(runs) : runs[i].run_id = entry.run_id
  THEN LET i == CHOOSE k \in 1..Len(runs) :
                  runs[k].run_id = entry.run_id /\ \A j \in 1..(k - 1) : runs[j].run_id # entry.run_id
       IN [runs EXCEPT ![i] = entry]
  ELSE Append(runs, entry)

\* RunManifest.update_run: the first entry of the run id gets the updates
update_run(runs, run_id, status, ended_at, run_success) ==
  IF \E i \in 1..Len(runs) : runs[i].run_id = run_id
  THEN LET i == CHOOSE k \in 1..Len(runs) :
                  runs[k].run_id = run_id /\ \A j \in 1..(k - 1) : runs[j].run_id # run_id
       IN [runs EXCEPT ![i] = [@ EXCEPT !.status = status, !.ended_at = ended_at, !.success = run_success]]
  ELSE runs

\* RunManifest.get_latest: runs[-1], None for an empty manifest
get_latest(runs) == IF runs = <<>> THEN NoneCheckpoint ELSE runs[Len(runs)]

\* ArtifactManager._get_manifest: the manifest the manager has loaded before,
\* or the manifest file
_get_manifest(g, m) == IF m \in DOMAIN g.cache THEN g.cache[m] ELSE g.manifest

\* the manager holds the new manifest and _save_manifest writes it
with_manifest(g, m, op, runs) ==
  [g EXCEPT !.manifest = runs,
            !.cache = Put(g.cache, m, runs),
            !.now = g.now + 1,
            !.last = [op |-> op, m |-> m, before |-> _get_manifest(g, m), file |-> g.manifest]]

ManifestInit ==
  /\ RunIdle
  /\ DagIdle
  /\ SigIdle
  /\ WaitIdle
  /\ CkptIdle
  /\ MgrIdle
  /\ CallIdle

\* manager m: register_run(project_name, entrypoint)
RegisterRun(m) ==
  /\ mgr.now < MaxManifestCalls
  /\ mgr' = with_manifest(mgr, m, "register_run",
                          add_run(_get_manifest(mgr, m), RunEntry(run_id_of(m), "running", mgr.now, None, "None")))
  /\ UNCHANGED <<main_vars, not_mgr>>

\* manager m: update_run_status(status, success=...)
UpdateStatus(m, status) ==
  /\ mgr.now < MaxManifestCalls
  /\ mgr' = with_manifest(mgr, m, "update_run_status",
                          update_run(_get_manifest(mgr, m), run_id_of(m), status, mgr.now,
                                     IF status = "completed" THEN "True" ELSE "False"))
  /\ UNCHANGED <<main_vars, not_mgr>>

ManifestNext ==
  \/ \E m \in Managers : RegisterRun(m)
  \/ \E m \in Managers, status \in {"completed", "failed"} : UpdateStatus(m, status)

SpecManifest == ManifestInit /\ [][ManifestNext]_vars

IndexOf(runs, run_id) == {i \in 1..Len(runs) : runs[i].run_id = run_id}

OneEntryPerRun(runs) == \A i, j \in 1..Len(runs) : runs[i].run_id = runs[j].run_id => i = j

\* C22: the manifest holds at most one entry per run id; register_run of an
\* id present in the manifest the manager holds replaces that entry in place
\* with status running and changes no other entry, register_run of an absent
\* id appends the entry; get_latest returns the last entry of the list
C22_RegisterRunIsUpsert ==
  /\ OneEntryPerRun(mgr.manifest)
  /\ \A m \in DOMAIN mgr.cache : OneEntryPerRun(mgr.cache[m])
  /\ (mgr.last # EmptyDict /\ mgr.last.op = "register_run") =>
       LET before == mgr.last.before
           id == run_id_of(mgr.last.m)
       IN /\ \A i \in 1..Len(before) : before[i].run_id # id => mgr.manifest[i] = before[i]
          /\ \E i \in 1..Len(mgr.manifest) :
               /\ mgr.manifest[i].run_id = id
               /\ mgr.manifest[i].status = "running"
               /\ mgr.manifest[i].success = "None"
               /\ IF IndexOf(before, id) # {}
                  THEN IndexOf(before, id) = {i} /\ Len(mgr.manifest) = Len(before)
                  ELSE i = Len(before) + 1 /\ Len(mgr.manifest) = Len(before) + 1
  /\ mgr.manifest # <<>> => get_latest(mgr.manifest) = mgr.manifest[Len(mgr.manifest)]

\* a second manager of a finished run registered it again: the entry, not the
\* last of the manifest, is replaced in place and is running again
C22_Witness ==
  /\ mgr.last # EmptyDict
  /\ mgr.last.op = "register_run"
  /\ Len(mgr.manifest) = 2
  /\ Len(mgr.last.before) = 2
  /\ mgr.last.before[1].run_id = run_id_of(mgr.last.m)
  /\ mgr.last.before[1].status = "completed"
  /\ mgr.manifest[1].status = "running"
  /\ get_latest(mgr.manifest).run_id = "run-2"

\* a manager that had loaded the manifest before another manager registered
\* its run wrote the manifest it held: the other run's entry is gone
C22_LostEntry ==
  /\ mgr.last # EmptyDict
  /\ \E i \in 1..Len(mgr.last.file) : IndexOf(mgr.manifest, mgr.last.file[i].run_id) = {}

\* ------------------------------------------------- branch iteration files
BranchNodes == {n \in Nodes(project) : project.kind[n] = "branch"}

\* the iterations of branch n whose iteration_<i>.json is in the run directory
IterationFiles(n) == {k[2] : k \in {x \in DOMAIN artifacts.branches : x[1] = n}}

\* the sub-workflow runs of branch n in the current run that returned a result
IsReturnedIterOf(n, i) == i.node = n /\ i.run = resumes /\ ~i.raised
ReturnedItersOf(n) == SelectSeq(iterations, LAMBDA i : IsReturnedIterOf(n, i))

\* C23: in a fresh run with artifacts, the iteration files of a branch are
\* exactly iteration_0 .. iteration_(n-1), n the number of iterations that ran
\* so far, whether the branch succeeded, failed in its sub-workflow or failed
\* with "Max iterations"
C23_IterationFiles ==
  (resumes = 0 /\ artifact_dir) =>
    \A n \in BranchNodes :
      /\ IterationFiles(n) = 0..(Len(ReturnedItersOf(n)) - 1)
      /\ \A i \in IterationFiles(n) :
           /\ artifacts.branches[<<n, i>>].iteration = i
           /\ artifacts.branches[<<n, i>>].inputs = ReturnedItersOf(n)[i + 1].input
           /\ artifacts.branches[<<n, i>>].success = ReturnedItersOf(n)[i + 1].ok

\* a branch failed with "Max iterations" after max_iterations >= 2 iterations,
\* each with its file
C23_Witness ==
  /\ resumes = 0 /\ artifact_dir /\ pc = "returned"
  /\ \E n \in LoopNodes :
       /\ project.branches[n].max_iterations >= 2
       /\ result.error = [node |-> n, msg |-> "max_iter"]
       /\ IterationFiles(n) = 0..(project.branches[n].max_iterations - 1)

\* a branch looped to completion
C23_WitnessCompleted ==
  /\ resumes = 0 /\ artifact_dir /\ pc = "returned" /\ success(result)
  /\ \E n \in LoopNodes : Cardinality(IterationFiles(n)) >= 2

\* ------------------------------------------------------ branch pre-condition
\* branch n has run in the current run() call and its pre-condition is false
\* against the inputs it gathered
PreConditionFalse(n) ==
  /\ n \in DOMAIN results
  /\ results[n].kind # "skip"
  /\ project.branches[n].condition.op # "none"
  /\ evaluate(project.branches[n].condition, results[n].input) = "false"

TraceOf(n) == {i \in 1..Len(trace) : trace[i].id = n /\ ~trace[i].replayed}

\* C24: a branch whose pre-condition is false against its gathered inputs
\* does not run its sub-workflow (no iteration executed, none persisted), is
\* marked skipped, has the gathered inputs as its output, and does not fail
\* the run
C24_PreConditionSkip ==
  \A n \in BranchNodes :
    PreConditionFalse(n) =>
      /\ calls[n] = 0
      /\ ItersOf(n, resumes) = <<>>
      /\ resumes = 0 => IterationFiles(n) = {}
      /\ results[n].kind = "ok"
      /\ results[n].out = results[n].input
      /\ results[n].out = _gather_inputs(project, n, node_outputs)
      /\ \A i \in TraceOf(n) : trace[i].skipped /\ ~trace[i].error
      /\ (pc \in {"level", "returned"} /\ TraceOf(n) # {}) => (n \in DOMAIN node_outputs /\ node_outputs[n] = results[n].input)
      /\ execution_error.node # n
      /\ (pc = "returned" /\ \A m \in DOMAIN results : results[m].kind # "err") => success(result)

\* a run returned successfully with a branch skipped by its pre-condition,
\* whose gathered inputs reached the output node
C24_Witness ==
  /\ pc = "returned" /\ success(result) /\ artifact_dir
  /\ \E n \in BranchNodes :
       /\ PreConditionFalse(n)
       /\ results[n].out # EmptyDict
       /\ TraceOf(n) # {}
       /\ \E o \in DOMAIN result.outputs.byNode : result.outputs.byNode[o] = results[n].out

\* ---------------------------------------------- loading branch iterations
MaxIteration == 11

Dot == 46
Zero == 48

\* str(n): the decimal digits of n, as character codes
RECURSIVE str(_)
str(n) == IF n < 10 THEN <<Zero + n>> ELSE str(n \div 10) \o <<Zero + (n % 10)>>

\* the part of the file name iteration_<n>.json that differs between the
\* files of a branch: the digits and the dot after them
iteration_path(iteration) == str(iteration) \o <<Dot>>

\* a < b for two strings, as Python compares them
RECURSIVE StrLess(_, _)
StrLess(a, b) ==
  IF a = <<>> THEN b # <<>>
  ELSE IF b = <<>> THEN FALSE
  ELSE IF a[1] # b[1] THEN a[1] < b[1]
  ELSE StrLess(Tail(a), Tail(b))

\* sorted(paths)
RECURSIVE sorted_paths(_)
sorted_paths(paths) ==
  IF paths = {} THEN <<>>
  ELSE LET first == CHOOSE x \in paths : \A y \in paths \ {x} : StrLess(x, y)
       IN <<first>> \o sorted_paths(paths \ {first})

\* ArtifactManager.save_branch_iteration on the files of one branch
save_iteration_file(persist, files, state) ==
  IF persist THEN Put(files, iteration_path(state.iteration), state) ELSE files

\* ArtifactManager.load_branch_iterations: every file, in the order of
\* sorted(branch_dir.glob("iteration_*.json"))
load_branch_iterations(files) ==
  LET paths == sorted_paths(DOMAIN files)
  IN [i \in 1..Len(paths) |-> files[paths[i]]]

\* ArtifactManager.get_latest_iteration
get_latest_iteration(files) ==
  LET loaded_iterations == load_branch_iterations(files)
  IN IF loaded_iterations = <<>> THEN NoneCheckpoint ELSE loaded_iterations[Len(loaded_iterations)]

IterationsInit == ManifestInit

\* save_branch_iteration(branch_id, state) for iteration i of the branch
SaveIteration(persist, i) ==
  /\ mgr' = [mgr EXCEPT !.branch_files =
                          save_iteration_file(persist, mgr.branch_files,
                                              BranchIterationState(2, i, EmptyDict, TRUE)),
                        !.last = EmptyDict]
  /\ UNCHANGED <<main_vars, not_mgr>>

\* load_branch_iterations(branch_id) and get_latest_iteration(branch_id)
LoadIterations ==
  /\ mgr' = [mgr EXCEPT !.last = [op |-> "load_branch_iterations",
                                  iterations |-> load_branch_iterations(mgr.branch_files),
                                  latest |-> get_latest_iteration(mgr.branch_files)]]
  /\ UNCHANGED <<main_vars, not_mgr>>

IterationsNext ==
  \/ \E persist \in BOOLEAN, i \in 0..MaxIteration : SaveIteration(persist, i)
  \/ LoadIterations

SpecIterations == IterationsInit /\ [][IterationsNext]_vars

HasLoadedIterations == mgr.last # EmptyDict /\ mgr.last.op = "load_branch_iterations"

SavedIterations == {mgr.branch_files[f].iteration : f \in DOMAIN mgr.branch_files}

\* C25: load_branch_iterations returns the saved iterations in ascending
\* iteration-index order, get_latest_iteration the one with the highest
\* index, None when none was saved
C25_IterationsInIndexOrder ==
  HasLoadedIterations =>
    LET its == mgr.last.iterations
    IN /\ {its[i].iteration : i \in 1..Len(its)} = SavedIterations
       /\ \A i, j \in 1..Len(its) : i < j => its[i].iteration < its[j].iteration
       /\ IF SavedIterations = {} THEN mgr.last.latest = NoneCheckpoint
          ELSE mgr.last.latest.iteration = Max(SavedIterations)

\* what the code does: the iterations come in the order of their file names
\* as strings, which is the index order as long as every index is below 10
C25_IterationsInNameOrder ==
  HasLoadedIterations =>
    LET its == mgr.last.iterations
    IN /\ {its[i].iteration : i \in 1..Len(its)} = SavedIterations
       /\ Len(its) = Cardinality(SavedIterations)
       /\ \A i, j \in 1..Len(its) :
            i < j => StrLess(iteration_path(its[i].iteration), iteration_path(its[j].iteration))
       /\ (\A n \in SavedIterations : n < 10) =>
            /\ \A i, j \in 1..Len(its) : i < j => its[i].iteration < its[j].iteration
            /\ SavedIterations # {} => mgr.last.latest.iteration = Max(SavedIterations)
       /\ SavedIterations = {} => mgr.last.latest = NoneCheckpoint

\* iterations 0..10 were saved and the latest iteration loaded is iteration 9
C25_LatestIsNotHighest ==
  /\ HasLoadedIterations
  /\ SavedIterations = 0..10
  /\ mgr.last.latest.iteration = 9

\* ----------------------------------------------- prompt and agent nodes, dry run
FieldNames == {"summary", "score"}
FieldTypes == {"string", "number", "boolean", "array", "object", "date"}

\* output.fields of a prompt file: field name -> declared type
Schemas == UNION {[S -> FieldTypes] : S \in SUBSET FieldNames}

\* the PromptNode of a prompt or of an agent: output format and fields, model
PromptNodes == [format : {"text", "json"}, fields : Schemas, model : {"None", "some-model"}]

\* the value _generate_mock_output puts in a field of the declared type
prompt_mock_value(field_type) ==
  CASE field_type = "string" -> PyValue("str", 0)
    [] field_type = "number" -> PyValue("int", 0)
    [] field_type = "boolean" -> PyValue("bool", 0)
    [] field_type = "array" -> PyValue("list", 0)
    [] field_type = "object" -> PyValue("dict", 0)
    [] OTHER -> PyValue("none", 0)

\* _generate_mock_output
_generate_mock_output(prompt_node) ==
  IF prompt_node.format = "text" THEN One("text", PyValue("str", 0))
  ELSE [f \in (DOMAIN prompt_node.fields) \cup {"text"} |->
          IF f \in DOMAIN prompt_node.fields THEN prompt_mock_value(prompt_node.fields[f])
          ELSE PyValue("str", 0)]

\* the value the dry-run branch of _execute_agent_node puts in a field
agent_mock_value(field_type) ==
  CASE field_type = "string" -> PyValue("str", 0)
    [] field_type = "array" -> PyValue("list", 0)
    [] OTHER -> PyValue("none", 0)

\* the mock output of the dry-run branch of _execute_agent_node
agent_mock_output(prompt_node) ==
  IF prompt_node.format = "json"
  THEN [f \in DOMAIN prompt_node.fields |-> agent_mock_value(prompt_node.fields[f])]
  ELSE One("text", PyValue("str", 0))

\* isinstance(value, expected_types.get(field_type)), True for a type that
\* is not in expected_types
is_expected(value, field_type) ==
  CASE field_type = "string" -> value.type = "str"
    [] field_type = "number" -> value.type \in {"int", "float", "bool"}
    [] field_type = "boolean" -> value.type = "bool"
    [] field_type = "array" -> value.type = "list"
    [] field_type = "object" -> value.type = "dict"
    [] OTHER -> TRUE

\* _validate_schema: "ok", or the SchemaValidationError it raises
_validate_schema(data, schema) ==
  IF \E f \in DOMAIN schema : f \notin DOMAIN data THEN "missing_field"
  ELSE IF \E f \in DOMAIN schema : ~is_expected(data[f], schema[f]) THEN "unexpected_type"
  ELSE "ok"

NodeResult(error, output, provider_calls) ==
  [error |-> error, output |-> output, provider_calls |-> provider_calls]

\* the content a provider returns, parsed: a JSON object of the schema, or
\* an object without the fields
Replies(prompt_node) == {_generate_mock_output(prompt_node), One("text", PyValue("str", 0))}

\* _execute_prompt_node
execute_prompt(a, reply) ==
  IF ~a.required_inputs THEN NodeResult("missing_input", EmptyDict, 0)
  ELSE IF a.node.model = "None" THEN NodeResult("no_model", EmptyDict, 0)
  ELSE IF a.dry_run THEN NodeResult("none", _generate_mock_output(a.node), 0)
  ELSE IF ~a.provider THEN NodeResult("no_provider", EmptyDict, 0)
  ELSE IF a.node.format = "json" /\ _validate_schema(reply, a.node.fields) # "ok"
  THEN NodeResult(_validate_schema(reply, a.node.fields), EmptyDict, 1)
  ELSE NodeResult("none", reply, 1)

\* _execute_agent_node
execute_agent(a, reply) ==
  IF ~a.required_inputs THEN NodeResult("missing_input", EmptyDict, 0)
  ELSE IF a.dry_run THEN NodeResult("none", agent_mock_output(a.node), 0)
  ELSE IF ~a.provider THEN NodeResult("no_provider", EmptyDict, 1)
  ELSE NodeResult("none", reply, 1)

\* a prompt or an agent node about to be executed, with its gathered inputs
\* holding the required ones or not, with or without a configured provider
DryRunInit ==
  /\ RunIdle
  /\ DagIdle
  /\ SigIdle
  /\ WaitIdle
  /\ CkptIdle
  /\ MgrIdle
  /\ \E kind \in {"prompt", "agent"}, node \in PromptNodes, dry \in BOOLEAN, provider \in BOOLEAN,
        required_inputs \in BOOLEAN :
       call = [NoCall EXCEPT !.fn = "execute_node",
                             !.args = [kind |-> kind, node |-> node, dry_run |-> dry, provider |-> provider,
                                       required_inputs |-> required_inputs]]

\* the task of the node runs
ExecuteLlmNode ==
  /\ call.fn = "execute_node"
  /\ ~call.returned
  /\ \E reply \in Replies(call.args.node) :
       call' = [call EXCEPT !.returned = TRUE,
                            !.result = IF call.args.kind = "prompt" THEN execute_prompt(call.args, reply)
                                       ELSE execute_agent(call.args, reply)]
  /\ UNCHANGED <<main_vars, not_call>>

DryRunNext == ExecuteLlmNode

SpecDryRun == DryRunInit /\ [][DryRunNext]_vars

\* an output that has every field of the schema, each of its declared type
Conforms(output, node) ==
  IF node.format = "text" THEN "text" \in DOMAIN output /\ output["text"].type = "str"
  ELSE \A f \in DOMAIN node.fields :
         /\ f \in DOMAIN output
         /\ node.fields[f] = "string" => output[f].type = "str"
         /\ node.fields[f] = "number" => output[f].type \in {"int", "float"}
         /\ node.fields[f] = "boolean" => output[f].type = "bool"
         /\ node.fields[f] = "array" => output[f].type = "list"
         /\ node.fields[f] = "object" => output[f].type = "dict"

\* a prompt or agent node executed in a dry run, with its required inputs
\* and, for a prompt, a model
DryRunOf(kind) ==
  /\ call.fn = "execute_node" /\ call.returned
  /\ call.args.dry_run /\ call.args.kind = kind /\ call.args.required_inputs
  /\ kind = "prompt" => call.args.node.model # "None"

\* C26: in a dry run a prompt or agent node makes no provider call, gets a
\* mock output matching its schema and succeeds, whether a provider is
\* configured or not
C26_DryRunMocks ==
  \A kind \in {"prompt", "agent"} :
    DryRunOf(kind) =>
      /\ call.result.provider_calls = 0
      /\ call.result.error = "none"
      /\ Conforms(call.result.output, call.args.node)

\* what the code does: no provider call and no failure in a dry run; the mock
\* of a prompt matches its schema, the mock of an agent matches it in its
\* string and array fields and is None in every other field
C26_DryRunMocksOfPrompts ==
  /\ (call.fn = "execute_node" /\ call.returned /\ call.args.dry_run) => call.result.provider_calls = 0
  /\ \A kind \in {"prompt", "agent"} : DryRunOf(kind) => call.result.error = "none"
  /\ DryRunOf("prompt") => Conforms(call.result.output, call.args.node)
  /\ DryRunOf("agent") =>
       IF call.args.node.format = "text" THEN Conforms(call.result.output, call.args.node)
       ELSE \A f \in DOMAIN call.args.node.fields :
              call.result.output[f].type =
                (CASE call.args.node.fields[f] = "string" -> "str"
                   [] call.args.node.fields[f] = "array" -> "list"
                   [] OTHER -> "none")

\* an agent with a number field got None for it in a dry run, which its own
\* schema validation rejects
C26_AgentMockRejected ==
  /\ DryRunOf("agent")
  /\ call.args.node.format = "json"
  /\ \E f \in DOMAIN call.args.node.fields : call.args.node.fields[f] = "number"
  /\ _validate_schema(call.result.output, call.args.node.fields) = "unexpected_type"

\* ------------------------------------------------------------------ run id
\* run ids given to run() or found in a checkpoint; "None" when there is none
RunIds == {"run-1", "run-2", "run-3"}

\* str(uuid4()): an id no earlier run has
NewUuid == "uuid"

\* effective_run_id: provided > checkpoint > generated
effective_run_id(run_id, checkpoint_run_id) ==
  IF run_id # "None" THEN run_id
  ELSE IF checkpoint_run_id # "None" THEN checkpoint_run_id
  ELSE NewUuid

\* the run_id of the Checkpoint object of the run: the loaded checkpoint keeps
\* its own, a new checkpoint gets the effective run id, without
\* checkpoint_dir and resume there is no Checkpoint object
checkpoint_run_id(a) ==
  IF a.resume_from # "None" THEN a.resume_from
  ELSE IF a.checkpoint_dir THEN effective_run_id(a.run_id, "None")
  ELSE "None"

\* run() up to the level loop: trace, artifact manager and manifest entry,
\* first save of a new checkpoint as <checkpoint_dir>/<run_id>.json
run_setup(a) ==
  LET id == effective_run_id(a.run_id, a.resume_from)
  IN [pc |-> "levels",
      trace_run_id |-> id,
      run_dir |-> IF a.artifact_dir THEN id ELSE "None",
      manifest_run_id |-> IF a.artifact_dir THEN id ELSE "None",
      checkpoint_run_id |-> checkpoint_run_id(a),
      checkpoint_file |-> IF a.checkpoint_dir /\ a.resume_from = "None" THEN checkpoint_run_id(a) ELSE "None",
      artifact_checkpoint |-> "None"]

\* run() after the level loop: final checkpoint save, checkpoint.json of the
\* run directory
run_finish(a, r) ==
  [r EXCEPT !.pc = "returned",
            !.checkpoint_file = IF r.checkpoint_run_id # "None" /\ a.checkpoint_dir
                                THEN r.checkpoint_run_id ELSE r.checkpoint_file,
            !.artifact_checkpoint =
               IF ~a.artifact_dir THEN "None"
               ELSE IF r.checkpoint_run_id # "None" THEN r.checkpoint_run_id
               ELSE r.trace_run_id]

RunIdInit ==
  /\ RunIdle
  /\ DagIdle
  /\ SigIdle
  /\ WaitIdle
  /\ CkptIdle
  /\ MgrIdle
  /\ \E run_id \in RunIds \cup {"None"}, resume_from \in RunIds \cup {"None"},
        dir \in BOOLEAN, adir \in BOOLEAN :
       call = [NoCall EXCEPT !.fn = "run",
                             !.args = [run_id |-> run_id, resume_from |-> resume_from,
                                       checkpoint_dir |-> dir, artifact_dir |-> adir]]

RunSetup ==
  /\ call.fn = "run"
  /\ call.result = EmptyDict
  /\ call' = [call EXCEPT !.result = run_setup(call.args)]
  /\ UNCHANGED <<main_vars, not_call>>

RunFinish ==
  /\ call.fn = "run"
  /\ call.result # EmptyDict
  /\ ~call.returned
  /\ call' = [call EXCEPT !.result = run_finish(call.args, call.result), !.returned = TRUE]
  /\ UNCHANGED <<main_vars, not_call>>

RunIdNext ==
  \/ RunSetup
  \/ RunFinish

SpecRunId == RunIdInit /\ [][RunIdNext]_vars

\* explicit argument > resumed checkpoint's run id > new UUID
ChosenRunId ==
  IF call.args.run_id # "None" THEN call.args.run_id
  ELSE IF call.args.resume_from # "None" THEN call.args.resume_from
  ELSE NewUuid

\* C27: the run id is the explicit argument, else the resumed checkpoint's,
\* else a new UUID, and it is the id of the trace, of the artifact directory
\* and manifest entry, and of every checkpoint the invocation persists
C27_OneRunId ==
  (call.fn = "run" /\ call.result # EmptyDict) =>
    LET r == call.result
    IN /\ r.trace_run_id = ChosenRunId
       /\ call.args.artifact_dir => (r.run_dir = ChosenRunId /\ r.manifest_run_id = ChosenRunId)
       /\ r.checkpoint_file \in {"None", ChosenRunId}
       /\ r.artifact_checkpoint \in {"None", ChosenRunId}
       /\ r.checkpoint_run_id \in {"None", ChosenRunId}

\* what the code does: trace, artifact directory and manifest entry carry the
\* chosen id; the checkpoint of a resumed run keeps the id of the checkpoint
\* it was loaded from, in its file name and in its content
C27_CheckpointKeepsItsRunId ==
  (call.fn = "run" /\ call.result # EmptyDict) =>
    LET r == call.result
        cp == IF call.args.resume_from # "None" THEN call.args.resume_from ELSE ChosenRunId
    IN /\ r.trace_run_id = ChosenRunId
       /\ call.args.artifact_dir => (r.run_dir = ChosenRunId /\ r.manifest_run_id = ChosenRunId)
       /\ r.checkpoint_file \in {"None", cp}
       /\ r.artifact_checkpoint \in {"None", cp}
       /\ (call.returned /\ call.args.artifact_dir) => r.artifact_checkpoint = cp
       /\ (call.returned /\ call.args.checkpoint_dir) => r.checkpoint_file = cp

\* a resume with an explicit run id: the run directory of the new id holds a
\* checkpoint.json of the old id
C27_TwoRunIds ==
  /\ call.fn = "run" /\ call.returned
  /\ call.result.run_dir = "run-2"
  /\ call.result.artifact_checkpoint = "run-1"
  /\ call.result.checkpoint_file = "run-1"

\* ----------------------------------------------------- node ids and kinds
NodeIds == {"draft", "review"}

\* the node dicts of a Project, in the order build_dag reads them
NodeKinds == <<"input", "prompt", "output", "tool", "agent", "branch">>

\* Project objects by their node dicts: kind -> the ids declared under it
DeclaredProjects == [Range(NodeKinds) -> SUBSET NodeIds]

\* the loops "for node_id in project.<kind>: nodes[node_id] = DAGNode(id, type)"
\* from the k-th kind on
RECURSIVE create_nodes(_, _, _)
create_nodes(p, k, nodes) ==
  IF k > Len(NodeKinds) THEN nodes
  ELSE create_nodes(p, k + 1,
                    [id \in (DOMAIN nodes) \cup p[NodeKinds[k]] |->
                       IF id \in p[NodeKinds[k]] THEN NodeKinds[k] ELSE nodes[id]])

\* build_dag on a project without edges: the DAG nodes, id -> type; nothing
\* is raised for an id that comes under two kinds
build_dag_nodes(p) == [raised |-> FALSE, nodes |-> create_nodes(p, 1, EmptyDict)]

NodeIdsInit ==
  /\ RunIdle
  /\ DagIdle
  /\ SigIdle
  /\ WaitIdle
  /\ CkptIdle
  /\ MgrIdle
  /\ \E p \in DeclaredProjects : call = [NoCall EXCEPT !.fn = "build_dag", !.args = p]

\* run(): dag = build_dag(project)
BuildNodes ==
  /\ call.fn = "build_dag"
  /\ call.result = EmptyDict
  /\ call' = [call EXCEPT !.result = [dag |-> build_dag_nodes(call.args), executed |-> {}]]
  /\ UNCHANGED <<main_vars, not_call>>

\* run(): the level loop dispatches a node of the DAG by its type
ExecuteDeclared(id) ==
  /\ call.fn = "build_dag"
  /\ call.result # EmptyDict
  /\ ~call.result.dag.raised
  /\ id \in DOMAIN call.result.dag.nodes
  /\ id \notin call.result.executed
  /\ call' = [call EXCEPT !.result.executed = @ \cup {id},
                          !.returned = call.result.executed \cup {id} = DOMAIN call.result.dag.nodes]
  /\ UNCHANGED <<main_vars, not_call>>

NodeIdsNext ==
  \/ BuildNodes
  \/ \E id \in NodeIds : ExecuteDeclared(id)

SpecNodeIds == NodeIdsInit /\ [][NodeIdsNext]_vars

KindsOf(p, id) == {k \in Range(NodeKinds) : id \in p[k]}

DeclaredTwice(p) == \E id \in NodeIds : Cardinality(KindsOf(p, id)) > 1

\* C28: a project that declares the same id under two kinds is rejected by
\* build_dag and none of its nodes is executed
C28_DuplicateIdsRejected ==
  (call.fn = "build_dag" /\ call.result # EmptyDict /\ DeclaredTwice(call.args)) =>
    /\ call.result.dag.raised
    /\ call.result.executed = {}

\* what the code does: build_dag never raises for the ids, the DAG has one
\* node per id, of the last kind (in the order input, prompt, output, tool,
\* agent, branch) that declares it
C28_LastKindWins ==
  (call.fn = "build_dag" /\ call.result # EmptyDict) =>
    /\ ~call.result.dag.raised
    /\ DOMAIN call.result.dag.nodes = {id \in NodeIds : KindsOf(call.args, id) # {}}
    /\ \A id \in DOMAIN call.result.dag.nodes :
         \E k \in 1..Len(NodeKinds) :
           /\ call.result.dag.nodes[id] = NodeKinds[k]
           /\ id \in call.args[NodeKinds[k]]
           /\ \A j \in (k + 1)..Len(NodeKinds) : id \notin call.args[NodeKinds[j]]

\* an id declared as a prompt and as a tool was executed, as a tool
C28_DuplicateExecuted ==
  /\ call.fn = "build_dag" /\ call.returned
  /\ KindsOf(call.args, "draft") = {"prompt", "tool"}
  /\ call.result.dag.nodes["draft"] = "tool"
  /\ "draft" \in call.result.executed

\* ------------------------------------- order of the steps of an iteration
IsIterAt(n, it, i) == i.node = n /\ i.it = it
ItersAt(n, it) == SelectSeq(iterations, LAMBDA i : IsIterAt(n, it, i))

\* the index a checkpoint holds for branch n is the index of an iteration of
\* n whose sub-workflow succeeded
RecordedAfterSuccess(cp) ==
  cp.exists =>
    \A n \in DOMAIN cp.branch_states :
      \E k \in 1..Len(iterations) :
        IsIterAt(n, cp.branch_states[n], iterations[k]) /\ iterations[k].ok

\* the run after a failed iteration of a branch starts the branch at that
\* iteration
FailedIterationRunAgain ==
  \A j \in 1..Len(iterations) :
    (~iterations[j].ok /\ ItersOf(iterations[j].node, iterations[j].run + 1) # <<>>) =>
      ItersOf(iterations[j].node, iterations[j].run + 1)[1].it = iterations[j].it

\* C29: branch_states[branch_id] = n is recorded in the checkpoint and
\* persisted only after iteration n has succeeded; a failed iteration is
\* never recorded as completed and a resume runs it again
C29_RecordedOnlyAfterSuccess ==
  /\ RecordedAfterSuccess(checkpoint)
  /\ RecordedAfterSuccess(disk)
  /\ FailedIterationRunAgain

\* what the code does: the index is recorded and saved for every iteration
\* whose sub-workflow returned a result, failed or not, and only an
\* iteration whose sub-workflow raised is run again by a resume
C29_RecordedAfterReturn ==
  /\ checkpoint.exists =>
       \A n \in DOMAIN checkpoint.branch_states :
         \E k \in 1..Len(iterations) :
           IsIterAt(n, checkpoint.branch_states[n], iterations[k]) /\ ~iterations[k].raised
  /\ \A j \in 1..Len(iterations) :
       LET i == iterations[j]
           later == ItersOf(i.node, i.run + 1)
       IN (~i.ok /\ later # <<>>) => later[1].it = (IF i.raised THEN i.it ELSE i.it + 1)

\* a failed iteration was recorded and saved, and the resumed run went on
\* with the iteration after it
C29_FailedIterationSkipped ==
  \E j \in 1..Len(iterations) :
    LET i == iterations[j]
    IN /\ ~i.ok /\ ~i.raised /\ i.run = 0 /\ resumes = 1
       /\ disk.exists /\ i.node \in DOMAIN disk.branch_states
       /\ ItersOf(i.node, 1) # <<>>
       /\ ItersOf(i.node, 1)[1].it = i.it + 1

\* ------------------------------------------- the tasks of one level
MaxBranchRuns == 2   \* iterations of a branch task of the level

Tasks == 1..2

\* the checkpoint file: not written yet, truncated by an open, whole, or the
\* overlay of two writes
CheckpointFile(state, branch_states) == [state |-> state, branch_states |-> branch_states]

\* a level of two nodes run by asyncio.gather, each a tool or a branch whose
\* loop makes `runs` iterations; the tasks are handed the one Checkpoint
\* object of the run
Level(kinds, runs, has_checkpoint, has_dir) ==
  [kinds |-> kinds, runs |-> runs, checkpoint |-> has_checkpoint, checkpoint_dir |-> has_dir]

LevelStart ==
  [branch_states |-> EmptyDict,
   file |-> CheckpointFile("none", EmptyDict),
   at |-> [t \in Tasks |-> "start"],
   iteration |-> [t \in Tasks |-> 0],
   data |-> [t \in Tasks |-> EmptyDict],
   overwritten |-> [t \in Tasks |-> FALSE]]

LevelInit ==
  /\ RunIdle
  /\ DagIdle
  /\ SigIdle
  /\ WaitIdle
  /\ CkptIdle
  /\ MgrIdle
  /\ \E kinds \in [Tasks -> {"tool", "branch"}], runs \in 1..MaxBranchRuns,
        has_checkpoint \in BOOLEAN, has_dir \in BOOLEAN :
       /\ has_dir => has_checkpoint
       /\ call = [fn |-> "level", args |-> Level(kinds, runs, has_checkpoint, has_dir),
                  returned |-> FALSE, result |-> LevelStart]

InLevel == call.fn = "level" /\ ~call.returned

At(t, where) == InLevel /\ call.result.at[t] = where

LevelStep(new) ==
  /\ call' = [call EXCEPT !.result = new]
  /\ UNCHANGED <<main_vars, not_call>>

\* the end of a pass of the while loop: the next iteration or the end of the task
after_iteration(l, t) ==
  IF l.iteration[t] + 1 < call.args.runs
  THEN [l EXCEPT !.at[t] = "start", !.iteration[t] = @ + 1]
  ELSE [l EXCEPT !.at[t] = "done"]

\* _execute_tool_node in its thread: no state of the run is written
ToolTask(t) ==
  /\ At(t, "start")
  /\ call.args.kinds[t] = "tool"
  /\ LevelStep([call.result EXCEPT !.at[t] = "done"])

\* _execute_branch_node in its thread: sub_result = run(...)
RunSubWorkflow(t) ==
  /\ At(t, "start")
  /\ call.args.kinds[t] = "branch"
  /\ LevelStep(IF call.args.checkpoint
               THEN [call.result EXCEPT !.at[t] = "ran"]
               ELSE after_iteration(call.result, t))

\* checkpoint.branch_states[node_id] = iteration
assign_branch_state(l, t) ==
  [l EXCEPT !.branch_states = [u \in (DOMAIN l.branch_states) \cup {t} |->
                                 IF u = t THEN l.iteration[t] ELSE l.branch_states[u]]]

AssignBranchState(t) ==
  /\ At(t, "ran")
  /\ LET l == assign_branch_state(call.result, t)
     IN LevelStep(IF call.args.checkpoint_dir
                  THEN [l EXCEPT !.at[t] = "assigned"]
                  ELSE after_iteration(l, t))

\* checkpoint.save: json.dumps(data) reads the branch_states dict of the object
Dump(t) ==
  /\ At(t, "assigned")
  /\ LevelStep([call.result EXCEPT !.at[t] = "dumped", !.data[t] = call.result.branch_states])

\* json.dumps(data, indent=2) walks the dict in Python code: a key inserted
\* by the other thread meanwhile ends it with RuntimeError (dictionary changed
\* size during iteration), and the task returns an error result
DumpInterrupted(t, u) ==
  /\ At(t, "assigned")
  /\ At(u, "ran")
  /\ u \notin DOMAIN call.result.branch_states
  /\ LET l == assign_branch_state(call.result, u)
     IN LevelStep([l EXCEPT !.at[t] = "error",
                            !.at[u] = "assigned"])

\* write_text: the file is opened for writing, which truncates it
Open(t) ==
  /\ At(t, "dumped")
  /\ LevelStep([call.result EXCEPT !.at[t] = "opened", !.overwritten[t] = FALSE,
                                   !.file = CheckpointFile("empty", EmptyDict)])

\* write_text: the text is written at offset 0 and the file closed; over a
\* text the other thread wrote since the open, the file holds this text or an
\* overlay of the two
Write(t, torn) ==
  /\ At(t, "opened")
  /\ torn => (call.result.overwritten[t] /\ call.result.file.branch_states # call.result.data[t])
  /\ LET l == [call.result EXCEPT
                 !.file = IF torn THEN CheckpointFile("torn", EmptyDict)
                          ELSE CheckpointFile("whole", call.result.data[t]),
                 !.overwritten = [u \in Tasks |-> u # t /\ (call.result.overwritten[u] \/ call.result.at[u] = "opened")]]
     IN LevelStep(after_iteration(l, t))

\* asyncio.gather returns once every task has returned
Gather ==
  /\ InLevel
  /\ \A t \in Tasks : call.result.at[t] \in {"done", "error"}
  /\ call' = [call EXCEPT !.returned = TRUE]
  /\ UNCHANGED <<main_vars, not_call>>

LevelNext ==
  \/ \E t \in Tasks : ToolTask(t)
  \/ \E t \in Tasks : RunSubWorkflow(t)
  \/ \E t \in Tasks : AssignBranchState(t)
  \/ \E t \in Tasks : Dump(t)
  \/ \E t \in Tasks, u \in Tasks : DumpInterrupted(t, u)
  \/ \E t \in Tasks : Open(t)
  \/ \E t \in Tasks, torn \in BOOLEAN : Write(t, torn)
  \/ Gather

SpecLevel == LevelInit /\ [][LevelNext]_vars

\* the tasks that are in the block that updates the checkpoint and saves it
Writing == {t \in Tasks : call.result.at[t] \in {"assigned", "dumped", "opened"}}

BranchTasks == {t \in Tasks : call.args.kinds[t] = "branch"}

\* C30: the checkpoint object and the checkpoint file are never written by
\* two tasks of the same level at the same time
C30_CheckpointSingleWriter ==
  call.fn = "level" => Cardinality(Writing) <= 1

\* what the code gives: with at most one branch node in the level there is
\* one writer, the file is never an overlay, no save is interrupted, and
\* after the level the file holds the branch states of the object
C30_OneBranchOneWriter ==
  (call.fn = "level" /\ Cardinality(BranchTasks) <= 1) =>
    /\ Cardinality(Writing) <= 1
    /\ call.result.file.state # "torn"
    /\ \A t \in Tasks : call.result.at[t] # "error"
    /\ (call.returned /\ call.args.checkpoint_dir /\ BranchTasks # {}) =>
          call.result.file = CheckpointFile("whole", call.result.branch_states)

\* two branch tasks of the level are inside the save of the checkpoint at once
C30_TwoWriters ==
  /\ call.fn = "level"
  /\ Writing = Tasks

\* after the level the file lacks the branch state the object holds
C30_StaleFile ==
  /\ call.fn = "level" /\ call.returned
  /\ call.result.file.state = "whole"
  /\ \A t \in Tasks : call.result.at[t] = "done"
  /\ call.result.file.branch_states # call.result.branch_states

\* a save of the checkpoint ended with an error in one of the tasks
C30_SaveInterrupted ==
  /\ call.fn = "level" /\ call.returned
  /\ \E t \in Tasks : call.result.at[t] = "error"

\* ------------------------------------------------- order of the trace
\* does trace entry a come before trace entry b in level order, ascending
\* node id inside a level
InLevelIdOrder(a, b) ==
  \/ LevelOf(a.id) < LevelOf(b.id)
  \/ LevelOf(a.id) = LevelOf(b.id) /\ a.id < b.id

\* C31: in every run, fresh or resumed, the trace lists the levels in
\* execution order and inside a level the entries in ascending node id
\* order, replayed entries and entries of executed nodes alike
C31_TraceInIdOrder ==
  \A i \in 1..Len(trace), j \in 1..Len(trace) : i < j => InLevelIdOrder(trace[i], trace[j])

\* what the code does: levels in execution order; inside a level the
\* entries replayed from the checkpoint come first, in ascending id order,
\* then the entries of the executed nodes, in ascending id order
C31_ReplayedThenExecuted ==
  \A i \in 1..Len(trace), j \in 1..Len(trace) :
    i < j =>
      \/ LevelOf(trace[i].id) < LevelOf(trace[j].id)
      \/ /\ LevelOf(trace[i].id) = LevelOf(trace[j].id)
         /\ \/ trace[i].replayed /\ ~trace[j].replayed
            \/ trace[i].replayed = trace[j].replayed /\ trace[i].id < trace[j].id

\* the trace of a resumed run holds a replayed entry before the entry of an
\* executed node of the same level with a lower id
C31_ReplayedBeforeLowerId ==
  /\ pc = "returned" /\ resumes = 1
  /\ \E i \in 1..Len(trace), j \in 1..Len(trace) :
       /\ i < j
       /\ LevelOf(trace[i].id) = LevelOf(trace[j].id)
       /\ trace[i].replayed /\ ~trace[j].replayed
       /\ trace[j].id < trace[i].id

\* ------------------------------------------------ outcome of a run
\* run() has returned from a run with checkpoint_dir and artifact_dir
ReturnedWithBoth == pc = "returned" /\ checkpoint_dir /\ artifact_dir

FailedEntry(a, error) == a.status = "failed" /\ a.success = "False" /\ a.error_summary = error

CompletedEntry(a) == a.status = "completed" /\ a.success = "True" /\ a.error_summary = NoError

\* C32: when run() returns with checkpointing and artifacts enabled,
\* result.error is set iff the persisted checkpoint has status failed iff
\* the manifest entry is failed with success false and the error summary;
\* otherwise both are completed; the entry is never left running
C32_OutcomeRecorded ==
  ReturnedWithBoth =>
    /\ disk.exists /\ artifacts.checkpoint.exists
    /\ artifacts.status # "running"
    /\ IF result.error # NoError
       THEN /\ disk.status = "failed"
            /\ artifacts.checkpoint.status = "failed"
            /\ FailedEntry(artifacts, result.error)
       ELSE /\ disk.status = "completed"
            /\ artifacts.checkpoint.status = "completed"
            /\ CompletedEntry(artifacts)

C32_Witness ==
  /\ ReturnedWithBoth
  /\ result.error # NoError
  /\ FailedEntry(artifacts, result.error)
  /\ disk.status = "failed"

C32_WitnessCompleted ==
  /\ ReturnedWithBoth /\ resumes = 1
  /\ result.error = NoError
  /\ CompletedEntry(artifacts)
  /\ disk.status = "completed"

\* ------------------------------------------- errors of condition evaluation
\* an inbound edge of node n whose condition raises on its source output
EdgeConditionRaises(n) ==
  \E e \in Range(incoming_edges(project, n)) :
    e.cond.op # "none" /\ evaluate(e.cond, GetOr(node_outputs, e.from)) = "err"

\* the pre-condition of branch n raises on the gathered inputs
PreConditionRaises(n) ==
  /\ project.kind[n] = "branch"
  /\ project.branches[n].condition.op # "none"
  /\ evaluate(project.branches[n].condition, _gather_inputs(project, n, node_outputs)) = "err"

\* C33: an error raised while evaluating a condition (of an edge or of a
\* branch) is treated as the condition being false: the gated node is
\* skipped and the run does not fail because of it
C33_ConditionErrorIsFalse ==
  \A n \in DOMAIN results :
    (EdgeConditionRaises(n) \/ PreConditionRaises(n)) =>
      /\ results[n].tskip
      /\ results[n].kind # "err"
      /\ execution_error.node # n

\* an error of an edge condition is treated as false: the node is skipped
\* without an error; an error of a branch pre-condition is the error of the
\* branch node and fails the run
C33_EdgeConditionErrorIsFalse ==
  \A n \in DOMAIN results :
    /\ EdgeConditionRaises(n) => (results[n] = Skipped /\ execution_error.node # n)
    /\ (PreConditionRaises(n) /\ ~EdgeConditionRaises(n)) =>
          (results[n].kind = "err" /\ results[n].msg = "branch_cond" /\ ~results[n].tskip)

\* the run succeeded although the condition of the edge into the tool raised
C33_Witness ==
  /\ pc = "returned" /\ success(result)
  /\ \E n \in DOMAIN results : EdgeConditionRaises(n) /\ results[n] = Skipped /\ calls[n] = 0

\* the run failed with the error of the branch pre-condition
C33_BranchConditionFails ==
  /\ pc = "returned" /\ ~success(result)
  /\ \E n \in DOMAIN results : PreConditionRaises(n) /\ result.error = [node |-> n, msg |-> "branch_cond"]

\* -------------------------------------------------- validate_subworkflows
Dirs == 1..2                         \* project directories
Manifests == {"agent.tml", "sub.yaml"}   \* manifest files of a directory

\* a loaded project: its root directory and the manifest it was loaded from
ProjectIds == Dirs \X Manifests

\* BranchNode.workflow_path: "self", a project directory, a manifest file,
\* or a path that does not exist
WorkflowPath(kind, d, f) == [kind |-> kind, d |-> d, f |-> f]

WorkflowPaths ==
  {WorkflowPath("self", 0, "none"), WorkflowPath("missing", 0, "none")}
  \cup {WorkflowPath("dir", d, "none") : d \in Dirs}
  \cup {WorkflowPath("file", d, f) : d \in Dirs, f \in Manifests}

\* the project files on disk: the workflow paths of the branch nodes of
\* every project, at most one branch node per project
FileSystems == [ProjectIds -> {<<>>} \cup {<<w>> : w \in WorkflowPaths}]

\* load_project(path): a directory gives the project of its agent.tml, a
\* file the project of that manifest with root = path.parent
load_project(w) == IF w.kind = "dir" THEN <<w.d, "agent.tml">> ELSE <<w.d, w.f>>

\* str(project.root.resolve())
root_path(pid) == [kind |-> "dir", d |-> pid[1], f |-> "none"]

\* str((project.root / workflow_path).resolve())
resolved_path(w) == WorkflowPath(w.kind, w.d, w.f)

\* the longest chain of nested calls: every call adds a new root directory
\* to the visited set it hands down
MaxDepth == Cardinality(Dirs) + 1

RECURSIVE validate_subworkflows(_, _, _, _)
\* one pass of the loop over project.branches; the errors it appends
validate_branch(fs, w, visited, depth) ==
  IF w.kind = "self" THEN {}
  ELSE IF w.kind = "missing" THEN {"workflow file not found"}
  ELSE IF resolved_path(w) \in visited THEN {"circular workflow reference to"}
  ELSE validate_subworkflows(fs, load_project(w), visited, depth + 1)

\* validate_subworkflows(project, visited): the errors of the result
validate_subworkflows(fs, pid, visited, depth) ==
  IF depth > MaxDepth THEN {"unbounded"}
  ELSE IF root_path(pid) \in visited THEN {"Circular workflow reference detected"}
  ELSE UNION {validate_branch(fs, fs[pid][i], visited \cup {root_path(pid)}, depth) :
                i \in 1..Len(fs[pid])}

MainProject == <<1, "agent.tml">>

ValidateInit ==
  /\ RunIdle
  /\ DagIdle
  /\ SigIdle
  /\ WaitIdle
  /\ CkptIdle
  /\ MgrIdle
  /\ \E fs \in FileSystems : call = [NoCall EXCEPT !.fn = "validate_subworkflows", !.args = fs]

\* validate_subworkflows(load_project(<directory 1>))
ValidateSubworkflows ==
  /\ call.fn = "validate_subworkflows"
  /\ ~call.returned
  /\ call' = [call EXCEPT !.returned = TRUE,
                          !.result = [errors |-> validate_subworkflows(call.args, MainProject, {}, 1)]]
  /\ UNCHANGED <<main_vars, not_call>>

ValidateNext == ValidateSubworkflows

SpecValidate == ValidateInit /\ [][ValidateNext]_vars

\* do the workflow references from project pid lead back to a project on
\* the chain of references that led to pid
RECURSIVE LeadsBack(_, _, _)
LeadsBack(fs, pid, chain) ==
  \/ pid \in chain
  \/ \E i \in 1..Len(fs[pid]) :
       /\ fs[pid][i].kind \in {"dir", "file"}
       /\ LeadsBack(fs, load_project(fs[pid][i]), chain \cup {pid})

\* the same with a project taken for its root directory
RECURSIVE LeadsBackToDirectory(_, _, _)
LeadsBackToDirectory(fs, pid, chain) ==
  \/ pid[1] \in chain
  \/ \E i \in 1..Len(fs[pid]) :
       /\ fs[pid][i].kind \in {"dir", "file"}
       /\ LeadsBackToDirectory(fs, load_project(fs[pid][i]), chain \cup {pid[1]})

Validated == call.fn = "validate_subworkflows" /\ call.returned

ReportsCycle ==
  call.result.errors \cap {"Circular workflow reference detected", "circular workflow reference to"} # {}

\* C34: sub-workflow validation terminates, and it reports a circular
\* workflow reference exactly when the branch workflow references lead back
\* to a project already on the current reference chain
C34_CycleExactlyWhenLeadsBack ==
  Validated =>
    /\ "unbounded" \notin call.result.errors
    /\ ReportsCycle <=> LeadsBack(call.args, MainProject, {})

\* what the code gives: validation terminates, every reference chain that
\* leads back to a project is reported, and the report is made exactly when
\* a chain leads back to a root directory already on it
C34_CycleByRootDirectory ==
  Validated =>
    /\ "unbounded" \notin call.result.errors
    /\ LeadsBack(call.args, MainProject, {}) => ReportsCycle
    /\ ReportsCycle <=> LeadsBackToDirectory(call.args, MainProject, {})

\* a branch whose workflow is a manifest next to the project's own, itself
\* without branch nodes, is reported as a circular reference
C34_SiblingManifestReported ==
  /\ Validated
  /\ call.args[MainProject] = <<WorkflowPath("file", 1, "sub.yaml")>>
  /\ call.args[<<1, "sub.yaml">>] = <<>>
  /\ ReportsCycle

\* ------------------------------------------- a branch with workflow "self"
MaxNesting == 5      \* nested run() calls followed before the model stops

\* input -> tool (increment) -> branch (workflow: self) -> output
SelfProject(pre, w, m) ==
  [name |-> "self", kind |-> <<"input", "tool", "branch", "output">>,
   edges |-> <<MkEdge(1, 2, NoCond, CC), MkEdge(2, 3, NoCond, CC), MkEdge(3, 4, NoCond, CC)>>,
   entrypoints |-> <<1>>,
   branches |-> [n \in {3} |-> [workflow |-> "self", condition |-> pre, loop_while |-> w, max_iterations |-> m]]]

\* a run() call on the stack: its inputs, where it is, the gathered inputs
\* of its branch node, the loop variables of the branch, and its result
Frame(run_inputs) ==
  [inputs |-> run_inputs, at |-> "tool", gathered |-> EmptyDict, iteration |-> 0,
   current_inputs |-> EmptyDict, ok |-> FALSE, outputs |-> EmptyDict]

SelfInit ==
  /\ RunIdle
  /\ DagIdle
  /\ SigIdle
  /\ WaitIdle
  /\ CkptIdle
  /\ MgrIdle
  /\ \E pre \in {NoCond, Lt(2), Lt(3)}, w \in {NoCond, Lt(LoopK)}, m \in 1..MaxM, c \in 0..MaxCounter :
       call = [fn |-> "run", args |-> SelfProject(pre, w, m), returned |-> FALSE,
               result |-> [stack |-> <<Frame(One("counter", c))>>]]

InSelfRun == call.fn = "run" /\ ~call.returned

Top == call.result.stack[Len(call.result.stack)]

SetTop(f) ==
  /\ call' = [call EXCEPT !.result.stack[Len(call.result.stack)] = f]
  /\ UNCHANGED <<main_vars, not_call>>

\* level 2 of the innermost run: the tool node
SelfTool ==
  /\ InSelfRun
  /\ Top.at = "tool"
  /\ LET r == _execute_tool_node(Top.inputs, 2, NoFail)
     IN SetTop(IF r.kind = "ok"
               THEN [Top EXCEPT !.at = "branch", !.gathered = r.out]
               ELSE [Top EXCEPT !.at = "done", !.ok = FALSE])

\* level 3 of the innermost run: the branch node up to its while loop; a
\* false pre-condition passes the gathered inputs through to the output node
SelfBranch ==
  /\ InSelfRun
  /\ Top.at = "branch"
  /\ LET b == call.args.branches[3]
         pre == IF b.condition.op = "none" THEN "true" ELSE evaluate(b.condition, Top.gathered)
     IN SetTop(IF pre = "err" THEN [Top EXCEPT !.at = "done", !.ok = FALSE]
               ELSE IF pre = "false" THEN [Top EXCEPT !.at = "done", !.ok = TRUE, !.outputs = Top.gathered]
               ELSE [Top EXCEPT !.at = "iterate", !.iteration = 0, !.current_inputs = Top.gathered])

\* sub_project = project; sub_result = run(project=sub_project, inputs=current_inputs, ...)
SelfEnter ==
  /\ InSelfRun
  /\ Top.at = "iterate"
  /\ Len(call.result.stack) < MaxNesting
  /\ call' = [call EXCEPT !.result.stack = Append(@, Frame(Top.current_inputs))]
  /\ UNCHANGED <<main_vars, not_call>>

\* the nested run() returns: the rest of the pass of the while loop
SelfReturn ==
  /\ InSelfRun
  /\ Top.at = "done"
  /\ Len(call.result.stack) > 1
  /\ LET sub == Top
         n == Len(call.result.stack) - 1
         f == call.result.stack[n]
         b == call.args.branches[3]
         d == loop_decision(b, sub.outputs, f.iteration)
         g == IF ~sub.ok THEN [f EXCEPT !.at = "done", !.ok = FALSE]
              ELSE IF d = "break" THEN [f EXCEPT !.at = "done", !.ok = TRUE, !.outputs = sub.outputs]
              ELSE IF d = "continue"
              THEN [f EXCEPT !.at = "iterate", !.iteration = @ + 1, !.current_inputs = sub.outputs]
              ELSE [f EXCEPT !.at = "done", !.ok = FALSE]
     IN /\ call' = [call EXCEPT !.result.stack = Append(SubSeq(@, 1, n - 1), g)]
        /\ UNCHANGED <<main_vars, not_call>>

\* the outermost run() returns its ExecutionResult
SelfFinish ==
  /\ InSelfRun
  /\ Top.at = "done"
  /\ Len(call.result.stack) = 1
  /\ call' = [call EXCEPT !.returned = TRUE]
  /\ UNCHANGED <<main_vars, not_call>>

SelfNext ==
  \/ SelfTool
  \/ SelfBranch
  \/ SelfEnter
  \/ SelfReturn
  \/ SelfFinish

SpecSelf == SelfInit /\ [][SelfNext]_vars

\* the run() calls nested inside the outermost one
Nested == Len(call.result.stack) - 1

\* C35: the depth of nested run() invocations of a project with a
\* self-referencing branch is bounded by the branch's max_iterations
C35_NestingBoundedByMaxIterations ==
  call.fn = "run" => Nested <= call.args.branches[3].max_iterations

\* what the code gives: max_iterations bounds the iterations of each branch
\* invocation, not the nesting; only a pre-condition that turns false ends
\* the nesting, and without one no run() call ever gets past its branch node
C35_BoundedByPreCondition ==
  call.fn = "run" =>
    LET b == call.args.branches[3]
        st == call.result.stack
    IN /\ \A i \in 1..Len(st) : st[i].iteration < b.max_iterations
       /\ \A i \in 2..Len(st) : st[i].inputs["counter"] > st[i - 1].inputs["counter"]
       /\ b.condition.op # "none" => Nested < b.condition.k
       /\ b.condition.op = "none" => (~call.returned /\ \A i \in 1..Len(st) : st[i].at # "done")

\* max_iterations is 1 and the run is three nested run() calls deep, with
\* the innermost about to make the next
C35_NestsPastMaxIterations ==
  /\ call.fn = "run"
  /\ call.args.branches[3].max_iterations = 1
  /\ call.args.branches[3].condition.op = "none"
  /\ Nested >= 3
  /\ Top.at = "iterate"

\* with a pre-condition that turns false the run returns
C35_ReturnsByPreCondition ==
  /\ call.fn = "run" /\ call.returned
  /\ call.result.stack[1].ok

\* ------------------------------------- max_iterations over a run's resumes
IsIterOfNode(n, i) == i.node = n
AllItersOf(n) == SelectSeq(iterations, LAMBDA i : IsIterOfNode(n, i))

\* C36: over a run and all of its resumes a branch node never executes an
\* iteration whose index is max_iterations or higher, and the iterations run
\* for one branch are at most max_iterations
C36_IterationsBelowMax ==
  \A n \in BranchNodes :
    /\ \A k \in 1..Len(iterations) :
         iterations[k].node = n => iterations[k].it < project.branches[n].max_iterations
    /\ Len(AllItersOf(n)) <= project.branches[n].max_iterations

\* what the code gives: the bound is checked after an iteration, never
\* before the first iteration of a run, so only the first iteration of a
\* resumed branch can have an index of max_iterations or higher, and every
\* single run makes at most max_iterations iterations
C36_OnlyFirstResumedIterationAboveMax ==
  \A n \in BranchNodes :
    /\ \A r \in 0..MaxResumes :
         LET I == ItersOf(n, r)
         IN /\ Len(I) <= project.branches[n].max_iterations
            /\ \A k \in 2..Len(I) : I[k].it < project.branches[n].max_iterations
    /\ ItersOf(n, 0) # <<>> => ItersOf(n, 0)[1].it = 0

\* the branch failed with max iterations, and the resumed run executed the
\* iteration with index max_iterations
C36_IterationAtMax ==
  /\ resumes = 1
  /\ \E n \in BranchNodes :
       /\ ItersOf(n, 1) # <<>>
       /\ ItersOf(n, 1)[1].it = project.branches[n].max_iterations
       /\ Len(AllItersOf(n)) > project.branches[n].max_iterations

\* ------------------------------------------ inputs of a resumed iteration
\* the first iteration a resumed run made for branch n
FirstResumed(n) == ItersOf(n, resumes)[1]

\* branch n has been resumed inside its loop: the resumed run made an
\* iteration with an index above 0
ResumedInLoop(n) == resumes > 0 /\ ItersOf(n, resumes) # <<>> /\ FirstResumed(n).it > 0

\* the entries of iteration `it` of branch n that returned in an earlier run
EarlierAt(n, it) == SelectSeq(ItersAt(n, it), LAMBDA i : i.run < resumes /\ ~i.raised)

\* C37: a branch loop resumed at iteration k+1 gives that iteration the
\* flattened outputs of iteration k as its inputs
C37_ResumedIterationGetsOutputs ==
  \A n \in BranchNodes :
    (ResumedInLoop(n) /\ EarlierAt(n, FirstResumed(n).it - 1) # <<>>) =>
      FirstResumed(n).input = EarlierAt(n, FirstResumed(n).it - 1)[1].out

\* what the code gives: the resumed iteration gets the inputs gathered from
\* the upstream nodes, as iteration 0 of a fresh run does
C37_ResumedIterationGetsGathered ==
  \A n \in BranchNodes :
    ResumedInLoop(n) => FirstResumed(n).input = _gather_inputs(project, n, node_outputs)

\* iteration 0 gave counter + 1 and the resumed iteration 1 started from the
\* run's inputs again
C37_ResumedFromGathered ==
  \E n \in BranchNodes :
    /\ ResumedInLoop(n)
    /\ FirstResumed(n).it = 1
    /\ EarlierAt(n, 0) # <<>>
    /\ EarlierAt(n, 0)[1].ok
    /\ FirstResumed(n).input # EarlierAt(n, 0)[1].out

\* --------------------------------------------- a level with a failed node
\* the level loop has processed every result of the level that failed
FailedLevelProcessed ==
  /\ execution_error # NoError
  /\ pc \in {"level", "returned"}

FailedLevel == Range(levels[LevelOf(execution_error.node)])

FailedNodes == {m \in FailedLevel : m \in DOMAIN results /\ results[m].kind = "err"}

SucceededNodes == {m \in FailedLevel : m \in DOMAIN results /\ results[m].kind = "ok"}

HasTraceEntry(m) == \E k \in 1..Len(trace) : trace[k].id = m /\ ~trace[k].error /\ ~trace[k].replayed

\* C38: when a node fails, the nodes of the same level that succeeded are
\* still recorded (trace entry, NodeOutput map, checkpoint completed_nodes),
\* result.error is the failure of the first failing node of the level in
\* ascending id order whichever task failed first, and a resume executes only
\* the nodes that are not in completed_nodes
C38_FailedLevelRecorded ==
  /\ FailedLevelProcessed =>
       /\ \A m \in SucceededNodes :
            /\ HasTraceEntry(m)
            /\ m \in DOMAIN node_outputs /\ node_outputs[m] = results[m].out
            /\ checkpoint_dir => (m \in DOMAIN disk.completed_nodes /\ disk.completed_nodes[m] = results[m].out)
       /\ execution_error.node = Min(FailedNodes)
       /\ pc = "returned" => result.error = execution_error
  /\ (resumes > 0 /\ pc # "raised") => started \cap DOMAIN loaded.completed_nodes = {}

\* the tool failed, the prompt of the same level succeeded and is in the
\* checkpoint, and the resumed run executed the tool and not the prompt
C38_Witness ==
  /\ pc = "returned" /\ resumes = 1
  /\ execution_error.node = 2
  /\ loaded.status = "failed"
  /\ 3 \in DOMAIN loaded.completed_nodes /\ 2 \notin DOMAIN loaded.completed_nodes
  /\ 2 \in started /\ 3 \notin started

\* the node with the higher id has failed while the node with the lower id,
\* which fails later, is still running
C38_HigherIdFailsFirst ==
  /\ pc = "tasks"
  /\ 3 \in DOMAIN results /\ results[3].kind = "err"
  /\ 2 \in Range(nodes_to_execute) /\ 2 \notin DOMAIN results
  /\ project.kind[2] = "branch" /\ inputs = EmptyDict /\ project.branches[2].workflow = "increment"
  /\ project.branches[2].condition.op = "none"

\* both nodes of the level failed and the error is that of the lower id
C38_BothFailed ==
  /\ pc = "returned"
  /\ FailedNodes = {2, 3}
  /\ result.error.node = 2

\* ------------------------------------- completed and pending nodes
Completed(cp) == DOMAIN cp.completed_nodes
Pending(cp) == Range(cp.pending_nodes)

\* completed_nodes and pending_nodes of a checkpoint are disjoint and
\* together hold every node of the DAG
Partitioned(cp) ==
  /\ Completed(cp) \cap Pending(cp) = {}
  /\ Completed(cp) \cup Pending(cp) = Nodes(project)

FreshFile == resumes = 0 /\ disk.exists

\* from one checkpoint file of the fresh run to the next, no node leaves
\* completed_nodes and no node comes back to pending_nodes
PendingToCompleted ==
  (FreshFile /\ resumes' = 0) =>
    /\ Completed(disk) \subseteq Completed(disk')
    /\ Pending(disk') \subseteq Pending(disk)

\* the nodes of the run that were skipped by edge gating
GatedNodes == {n \in DOMAIN results : results[n].kind = "skip"}

\* C39: in every checkpoint persisted by a fresh checkpointed run,
\* completed_nodes and pending_nodes are disjoint and together hold every
\* node of the DAG, a node moves from pending to completed at most once and
\* never back, and a checkpoint with status completed has no pending node
C39_NoPendingWhenCompleted ==
  /\ [](FreshFile => (Partitioned(disk) /\ (disk.status = "completed" => Pending(disk) = {})))
  /\ [][PendingToCompleted]_vars

\* the same, but a checkpoint with status completed keeps as pending
\* exactly the nodes that edge gating skipped
C39_GatedNodesStayPending ==
  /\ [](FreshFile => (Partitioned(disk) /\ (disk.status = "completed" => Pending(disk) = GatedNodes)))
  /\ [][PendingToCompleted]_vars

\* a fresh run succeeded and its completed checkpoint has a pending node
C39_Witness ==
  /\ pc = "returned" /\ FreshFile
  /\ success(result)
  /\ disk.status = "completed"
  /\ Pending(disk) # {}
  /\ Completed(disk) # {}

\* ------------------------------- a wait for signals that are all there
\* the signals directory with the completed signal of both workflows
BothCompleted ==
  after_emit(after_emit(NoSignals, TRUE, "completed", "build", RunSignalArgs(OutputsPath), 0),
             TRUE, "completed", "build.started", RunSignalArgs(OutputsPath), 0)

PresentInit ==
  /\ RunIdle
  /\ DagIdle
  /\ CkptIdle
  /\ MgrIdle
  /\ CallIdle
  /\ sig = BothCompleted
  /\ \E signals \in AwaitedSignals \cup {<<AwaitedA, AwaitedB, AwaitedA>>},
        t \in 1..MaxTimeout, p \in 1..MaxPoll :
       wait = WaitConfig(signals, t, p)

\* the workflows run again and overwrite their completed signal
EmitAgain == \E w \in Workflows : EmitSignal(TRUE, "completed", w, RunSignalArgs(OutputsPath))

PresentNext ==
  \/ WaitStep
  \/ EmitAgain

SpecWaitPresent == PresentInit /\ [][PresentNext]_vars

Distinct(signals) == Cardinality(Range(signals)) = Len(signals)

FirstPoll == wait.clock = wait.start

\* C40: with every awaited signal file there and parsing from the start of
\* the wait and timeout_seconds > 0, wait_for_signals returns on its first
\* poll and does not time out, also for a list that names a signal twice
C40_ReturnsOnFirstPoll ==
  /\ AllPresent(sig.files, wait.signals)
  /\ wait.pc \notin {"sleep", "raised"}
  /\ wait.pc = "returned" => FirstPoll

\* what the code gives: a list of distinct paths returns on the first poll;
\* a list that names a path twice never returns, because the results are
\* keyed by path and their number is compared with the length of the list,
\* and it times out naming no missing signal
C40_FirstPollOfDistinctPaths ==
  /\ AllPresent(sig.files, wait.signals)
  /\ Distinct(wait.signals) => (wait.pc \notin {"sleep", "raised"} /\ (wait.pc = "returned" => FirstPoll))
  /\ ~Distinct(wait.signals) =>
       /\ wait.pc # "returned"
       /\ wait.pc = "raised" => (wait.missing = <<>> /\ Range(wait.signals) \subseteq DOMAIN wait.results)

\* the wait for the same signal twice timed out with the signal loaded
C40_DuplicateTimesOut ==
  /\ wait.pc = "raised"
  /\ wait.signals = <<AwaitedA, AwaitedA>>
  /\ AwaitedA \in DOMAIN wait.results
  /\ wait.missing = <<>>

\* two distinct signals were returned on the first poll
C40_ReturnedOnFirstPoll ==
  /\ wait.pc = "returned"
  /\ wait.signals = <<AwaitedA, AwaitedB>>
  /\ FirstPoll

====
